---- MODULE Spec2Model ----
(***************************************************************************)
(* VTPT Meter: the room page's offline write/delete outbox, its cycle      *)
(* resolver and its reconciliation loop (src/pages/room/[room].tsx, the    *)
(* second, current version of the page that starts at line 830), with the  *)
(* /api/meter proxy and the remote script as the environment.              *)
(*                                                                         *)
(* One action is one macrotask of the browser's event loop: an event       *)
(* handler, a timer callback or the completion of a fetch, together with   *)
(* every continuation (microtask) it releases and the React render that    *)
(* follows it.  Time is counted in minutes.                                *)
(***************************************************************************)
EXTENDS Integers, Sequences, FiniteSets, TLC

\* ------------------------------------------------------------------ bounds
\* what a behaviour holds of saves, deletes, browser events, clock ticks and
\* responses other than 200 { ok: true }
MaxSteps == 2
\* POSTs the flushes get an answer to
MaxPosts == 4

\* ------------------------------------------------------- program constants
\* TTL_MS = 2 * 60 * 1000 ms, in minutes
TTL_MS == 2
\* filtered.slice(0, max), sorted.slice(0, 24)
HistoryMax == 24
\* writeWriteOutbox(list.slice(0, 120))
WriteOutboxCap == 120
\* writeDeleteOutbox(list.slice(0, 80))
DeleteOutboxCap == 80

\* ------------------------------------------------------------- time, keys
DayLen == 24 * 60
MonthLen == 30 * DayLen
\* the page is opened at T0, in the second month of the modelled calendar
T0 == MonthLen + (10 * DayLen)
\* new Date(dateStr).getTime() is NaN
InvalidDate == 0 - 1
\* a null dien / nuoc
NoNum == 0 - 1
MonthKeys == <<"2026-02", "2026-03", "2026-04">>
ROOM == "A1-01"
PIN == "1111"
\* who awaits an invocation: {} for `void f()`, {seq} for the sync run seq
Detached == {}

monthKeyFromDateString(d) ==
    IF d = InvalidDate THEN "unknown" ELSE MonthKeys[(d \div MonthLen) + 1]

vnDayKey(d) ==
    IF d = InvalidDate THEN InvalidDate ELSE d \div DayLen

isSameVNDay(a, b) == vnDayKey(a) = vnDayKey(b)

\* String(row.cycle || "").trim() || monthKeyFromDateString(row.date)
EffectiveCycle(r) ==
    IF r.cycle # "" THEN r.cycle ELSE monthKeyFromDateString(r.date)

\* row is a Reading (the null row is handled by the callers' emptiness test)
isRowInCycle(row, cycleMonth) ==
    IF cycleMonth = "" THEN FALSE
    ELSE IF row.cycle # "" THEN row.cycle = cycleMonth
    ELSE monthKeyFromDateString(row.date) = cycleMonth

\* ------------------------------------------------------------- sequences
Reverse(s) == [i \in 1..Len(s) |-> s[Len(s) + 1 - i]]

Slice(s, n) == IF Len(s) <= n THEN s ELSE SubSeq(s, 1, n)

Range(s) == {s[i] : i \in 1..Len(s)}

\* Array.prototype.sort is stable: an element goes behind every element the
\* comparator does not put strictly after it
RECURSIVE InsertNewest(_, _)
InsertNewest(r, s) ==
    IF s = <<>> THEN <<r>>
    ELSE IF Head(s).date >= r.date THEN <<Head(s)>> \o InsertNewest(r, Tail(s))
    ELSE <<r>> \o s

\* (a, b) => new Date(b.date).getTime() - new Date(a.date).getTime(),
\* for lists whose dates all parse
RECURSIVE sortNewestFirst(_)
sortNewestFirst(list) ==
    IF list = <<>> THEN <<>>
    ELSE InsertNewest(list[Len(list)],
                      sortNewestFirst(SubSeq(list, 1, Len(list) - 1)))

\* Orders of list, as sequences of its indices
Orders(list) ==
    {f \in [1..Len(list) -> 1..Len(list)] :
        \A i, j \in 1..Len(list) : i # j => f[i] # f[j]}

\* The comparator's value for (a, b) is negative: a strictly newer than b.
\* With an unparsable date it is NaN, which sort reads as +0.
StrictlyNewer(a, b) ==
    a.date # InvalidDate /\ b.date # InvalidDate /\ a.date > b.date

\* What next.sort(comparator) can leave.  While every date parses the
\* comparator is consistent and the result is the stable sort.  A row whose
\* date does not parse makes it inconsistent (it is "equal" to every row),
\* and the order is implementation-defined (ECMA-262, Array.prototype.sort):
\* kept here are the orders an insertion or merge sort can end in, those in
\* which no row is followed by a row the comparator puts strictly before it.
sortNewestFirstOutcomes(list) ==
    IF \A i \in 1..Len(list) : list[i].date # InvalidDate
    THEN {sortNewestFirst(list)}
    ELSE {[i \in 1..Len(list) |-> list[f[i]]] : f \in
            {g \in Orders(list) :
                \A i \in 1..(Len(list) - 1) :
                    ~StrictlyNewer(list[g[i + 1]], list[g[i]])}}

\* upsertMonthlyHistory's comparator: unparsable dates last, else newest first
UpsertBefore(a, b) ==
    IF a.date = InvalidDate THEN FALSE
    ELSE IF b.date = InvalidDate THEN TRUE
    ELSE a.date > b.date

RECURSIVE InsertUpsert(_, _)
InsertUpsert(r, s) ==
    IF s = <<>> THEN <<r>>
    ELSE IF UpsertBefore(r, Head(s)) THEN <<r>> \o s
    ELSE <<Head(s)>> \o InsertUpsert(r, Tail(s))

RECURSIVE SortUpsert(_)
SortUpsert(list) ==
    IF list = <<>> THEN <<>>
    ELSE InsertUpsert(list[Len(list)], SortUpsert(SubSeq(list, 1, Len(list) - 1)))

\* an upsert that would append: no filter by cycle, no sort
upsertMonthlyHistoryAppend(list, incoming, max) ==
    Slice(<<incoming>> \o list, max)

upsertMonthlyHistory(list, incoming, max) ==
    LET mk == EffectiveCycle(incoming)
        Other(r) == EffectiveCycle(r) # mk
        filtered == <<incoming>> \o SelectSeq(list, Other)
    IN  Slice(SortUpsert(filtered), max)

\* now      the clock (Date.now(), in minutes)
\* pin      sessionStorage vtpt_pin ("" when absent)
\* mounted  whether the page's mount effect has run
\* srv      the remote script: the room's rows (newest first), the next row
\*          id and the active cycle
\* ls       localStorage: latest, hist and cycle caches, the two outboxes
\* ui       the component's state and refs
\* pr       the invocations suspended on an await: wInv / dInv (flushes),
\*          runs (runBackgroundSync), bg (backgroundRefreshIfStale)
\* turn     the effects of the last save / delete turn, in the order they ran
\* att      the POST attempt whose answer the last turn handled, with the
\*          item as the flush read it and the answer (empty otherwise)
\* used     how much of each bound the run has used
VARIABLES now, pin, mounted, srv, ls, ui, pr, turn, att, used

vars == <<now, pin, mounted, srv, ls, ui, pr, turn, att, used>>

\* ---------------------------------------------------------- localStorage
\* An envelope { savedAt, data }; a key that was never written reads as
\* savedAt 0 with empty data (every reader treats the two alike).  Of the
\* per-house caches only this room's entry is kept.
NoEnvelope == [savedAt |-> 0, data |-> <<>>]
NoCycleEnvelope == [savedAt |-> 0, data |-> ""]

\* data[idx] = updated when the room has an entry, else data.push(updated)
upsertHouseLatestCache(st, updated) ==
    [st EXCEPT !.latest = [savedAt |-> now, data |-> <<updated>>]]

removeHouseLatestIfMatch(st, target) ==
    IF st.latest.data = <<>> THEN st
    ELSE LET cur == st.latest.data[1] IN
         IF cur.id = target.id /\ cur.date = target.date
         THEN [st EXCEPT !.latest = [savedAt |-> now, data |-> <<>>]]
         ELSE st

writeHouseHistoryRoomListToCache(st, nextList) ==
    [st EXCEPT !.hist = [savedAt |-> now, data |-> nextList]]

\* the same on the whole cached map (room -> list): data[reading.room] is
\* replaced, a room without an entry starts from []
upsertHouseHistoryCacheMap(data, room, reading, maxPerRoom) ==
    LET list == IF room \in DOMAIN data THEN data[room] ELSE <<>>
    IN  [r \in DOMAIN data \cup {room} |->
            IF r = room THEN upsertMonthlyHistory(list, reading, maxPerRoom)
            ELSE data[r]]

upsertHouseHistoryCache(st, reading, maxPerRoom) ==
    [st EXCEPT !.hist = [savedAt |-> now,
                         data |-> upsertMonthlyHistory(st.hist.data, reading, maxPerRoom)]]

\* --------------------------------------------------------------- outboxes
readDeleteOutbox(st) == st.dOutbox
readWriteOutbox(st) == st.wOutbox

SameTarget(x, room, target) ==
    x.room = room /\ x.target.id = target.id /\ x.target.date = target.date

\* enqueueDelete without its de-dupe test
enqueueDeleteAlways(st, room, target) ==
    LET list == readDeleteOutbox(st)
        item == [room |-> room, target |-> target, createdAt |-> now, tries |-> 0]
    IN  [st EXCEPT !.dOutbox = Slice(<<item>> \o list, DeleteOutboxCap)]

enqueueDelete(st, room, target) ==
    LET list == readDeleteOutbox(st)
        item == [room |-> room, target |-> target, createdAt |-> now, tries |-> 0]
    IN  IF \E i \in 1..Len(list) : SameTarget(list[i], room, target) THEN st
        ELSE [st EXCEPT !.dOutbox = Slice(<<item>> \o list, DeleteOutboxCap)]

\* makeId() is a fresh identifier: id is the number of the enqueue
enqueueWrite(st, id, payload) ==
    LET list == readWriteOutbox(st)
        item == [id |-> id, createdAt |-> now, tries |-> 0, payload |-> payload]
    IN  [st EXCEPT !.wOutbox = Slice(<<item>> \o list, WriteOutboxCap)]

\* a removal written back from a list read before the POST: what was
\* enqueued after the item is lost with it
WriteAckedFromSnapshot(st, item) ==
    LET Older(x) == x.id < item.id
    IN  [st EXCEPT !.wOutbox = SelectSeq(readWriteOutbox(st), Older)]

\* the three bookkeeping branches of flushWriteOutbox's loop body
WriteAcked(st, item) ==
    LET Other(x) == x.id # item.id
    IN  [st EXCEPT !.wOutbox = SelectSeq(readWriteOutbox(st), Other)]

\* failure branches that would drop the item, or also clear the history cache
WriteFailedDrops(st, item) == WriteAcked(st, item)

WriteFailedRollsBack(st, item) ==
    LET list == readWriteOutbox(st)
    IN  [st EXCEPT !.wOutbox =
            [i \in 1..Len(list) |->
                IF list[i].id = item.id
                THEN [list[i] EXCEPT !.tries = @ + 1] ELSE list[i]],
                   !.hist = NoEnvelope]

WriteFailed(st, item) ==
    LET list == readWriteOutbox(st)
    IN  [st EXCEPT !.wOutbox =
            [i \in 1..Len(list) |->
                IF list[i].id = item.id
                THEN [list[i] EXCEPT !.tries = @ + 1] ELSE list[i]]]

DeleteAcked(st, item) ==
    LET Other(x) == ~SameTarget(x, item.room, item.target)
    IN  [st EXCEPT !.dOutbox = SelectSeq(readDeleteOutbox(st), Other)]

\* a failure branch that would leave tries alone
DeleteFailedKeepsTries(st, item) == st

DeleteFailed(st, item) ==
    LET list == readDeleteOutbox(st)
    IN  [st EXCEPT !.dOutbox =
            [i \in 1..Len(list) |->
                IF SameTarget(list[i], item.room, item.target)
                THEN [list[i] EXCEPT !.tries = @ + 1] ELSE list[i]]]

\* ------------------------------------------------------- HTTP responses
\* What a fetch of /api/meter can end in: the promise rejects (offline,
\* timeout), or a response arrives with a status and a body that is the
\* envelope { ok: true }, the envelope { ok: false }, or no JSON at all.
\* The proxy relays the remote script's status and JSON as they are.
Responses ==
    {[net |-> "rejected", status |-> 0, body |-> "none"]} \cup
    [net : {"arrived"}, status : {200, 500}, body : {"ok_true", "ok_false", "malformed"}]

\* if (j?.ok): res.json() that throws leaves j null
JsonOk(resp) == resp.net = "arrived" /\ resp.body = "ok_true"

\* the classes of the outcome of an attempt
EnvelopeNotOk(resp) == resp.net = "arrived" /\ resp.body = "ok_false"
MalformedJson(resp) == resp.net = "arrived" /\ resp.body = "malformed"
HttpError(resp) == resp.net = "rejected" \/ resp.status # 200

\* ------------------------------------------------------------- the client
\* The operators below take and return the client C = [ls, ui, pr, tr]:
\* localStorage, component state, suspended invocations, and the effects
\* logged in this turn.
Client == [ls |-> ls, ui |-> ui, pr |-> pr, tr |-> <<>>]

Log(C, e) == [C EXCEPT !.tr = Append(@, e)]

\* latestCycle: the first row of the sorted history that is in the cycle
\* (a set: empty for null)
RECURSIVE FirstInCycle(_, _)
FirstInCycle(list, cycleMonth) ==
    IF list = <<>> THEN {}
    ELSE IF isRowInCycle(Head(list), cycleMonth) THEN {Head(list)}
    ELSE FirstInCycle(Tail(list), cycleMonth)

\* the values the memo can take (each a set: empty for null)
latestCycle(history, cycleMonth) ==
    IF cycleMonth = "" THEN {{}}
    ELSE {FirstInCycle(sorted, cycleMonth) : sorted \in sortNewestFirstOutcomes(history)}

\* const hasThisCycle = isRowInCycle(latestCycle, cycleMonth)
hasThisCycle(u) == \E r \in u.latestCycle : isRowInCycle(r, u.cycleMonth)

\* what the two meter cards show: the value, or NoNum for the placeholder
latestDien(u) ==
    IF hasThisCycle(u) THEN (CHOOSE r \in u.latestCycle : TRUE).dien ELSE NoNum

latestNuoc(u) ==
    IF hasThisCycle(u) THEN (CHOOSE r \in u.latestCycle : TRUE).nuoc ELSE NoNum

\* the render that ends a turn recomputes useMemo([history, cycleMonth])
Render(u) ==
    {[u EXCEPT !.latestCycle = lc] : lc \in latestCycle(u.history, u.cycleMonth)}

loadFromCaches(C) ==
    [C EXCEPT
        !.ui.cycleMonth = IF C.ls.cycle.data # "" THEN C.ls.cycle.data ELSE @,
        !.ui.latestOverall = Range(C.ls.latest.data),
        !.ui.history = C.ls.hist.data]

\* flushWriteOutbox without its guard
WriteFlushGuardNone(C) == FALSE

\* if (flushingWritesRef.current) return;
WriteFlushGuard(C) == C.ui.flushingWrites

\* if (flushingDeletesRef.current) return;
DeleteFlushGuard(C) == C.ui.flushingDeletes

\* a flush that would send the list as it is stored, newest first
flushWriteOutboxNewestFirst(C, owner) ==
    IF WriteFlushGuard(C) THEN C
    ELSE LET list == readWriteOutbox(C.ls) IN
         IF pin = "" \/ list = <<>> THEN [C EXCEPT !.ui.flushingWrites = FALSE]
         ELSE Log([C EXCEPT !.ui.flushingWrites = TRUE,
                            !.pr.wInv = @ \cup {[owner |-> owner, todo |-> list]}],
                  "fetch")

\* a flush whose early returns would skip the finally
flushWriteOutboxNoFinally(C, owner) ==
    IF WriteFlushGuard(C) THEN C
    ELSE LET list == readWriteOutbox(C.ls) IN
         IF pin = "" \/ list = <<>> THEN [C EXCEPT !.ui.flushingWrites = TRUE]
         ELSE Log([C EXCEPT !.ui.flushingWrites = TRUE,
                            !.pr.wInv = @ \cup {[owner |-> owner, todo |-> Reverse(list)]}],
                  "fetch")

\* flushWriteOutbox up to its first await.  Without a PIN or with an empty
\* outbox the flag is set and reset by the finally within the call.
flushWriteOutbox(C, owner) ==
    IF WriteFlushGuard(C) THEN C
    ELSE LET list == readWriteOutbox(C.ls) IN
         IF pin = "" \/ list = <<>> THEN [C EXCEPT !.ui.flushingWrites = FALSE]
         ELSE Log([C EXCEPT !.ui.flushingWrites = TRUE,
                            !.pr.wInv = @ \cup {[owner |-> owner, todo |-> Reverse(list)]}],
                  "fetch")

flushDeleteOutbox(C, owner) ==
    IF DeleteFlushGuard(C) THEN C
    ELSE LET list == readDeleteOutbox(C.ls) IN
         IF pin = "" \/ list = <<>> THEN [C EXCEPT !.ui.flushingDeletes = FALSE]
         ELSE Log([C EXCEPT !.ui.flushingDeletes = TRUE,
                            !.pr.dInv = @ \cup {[owner |-> owner, todo |-> Reverse(list)]}],
                  "fetch")

\* if (j?.ok) remove; else tries + 1; catch: tries + 1
WriteBookkeeping(lst, item, resp) ==
    IF resp.net = "rejected" THEN WriteFailed(lst, item)
    ELSE IF JsonOk(resp) THEN WriteAcked(lst, item)
    ELSE WriteFailed(lst, item)

DeleteBookkeeping(lst, item, resp) ==
    IF resp.net = "rejected" THEN DeleteFailed(lst, item)
    ELSE IF JsonOk(resp) THEN DeleteAcked(lst, item)
    ELSE DeleteFailed(lst, item)

\* refreshOverallLatestFromNetwork and refreshHistoryFromNetwork start
\* together (Promise.all): both fetches are issued in one turn.
\* A run of runBackgroundSync: where it is suspended, which of its two
\* fetches are still out, and the script's rows when they were issued (an
\* answer carries the rows of the moment the script handled the request:
\* at the earliest those, at the latest the rows at the arrival).
SetRun(C, seq, phase, f) ==
    [C EXCEPT !.pr.runs =
        {r \in @ : r.seq # seq} \cup
        {[seq |-> seq, phase |-> phase, latest |-> f, hist |-> f, sent |-> srv.rows]}]

RunAfterDeletes(C, seq) == Log(SetRun(C, seq, "fetch", "pending"), "fetch")

\* await flushDeleteOutbox()
RunAfterWrites(C, seq) ==
    LET C1 == flushDeleteOutbox(C, {seq}) IN
    IF \E i \in C1.pr.dInv : i.owner = {seq}
    THEN SetRun(C1, seq, "flushD", "idle")
    ELSE RunAfterDeletes(C1, seq)

\* const mySeq = ++syncSeqRef.current; ... await flushWriteOutbox()
runBackgroundSync(C) ==
    LET seq == C.ui.syncSeq + 1
        C0 == [C EXCEPT !.ui.syncSeq = seq, !.ui.syncing = TRUE]
        C1 == flushWriteOutbox(C0, {seq})
    IN  IF \E i \in C1.pr.wInv : i.owner = {seq}
        THEN SetRun(C1, seq, "flushW", "idle")
        ELSE RunAfterWrites(C1, seq)

\* the continuation of whoever awaited a flush that has returned
ResumeAfterWrites(C, owner) ==
    IF owner = Detached THEN C
    ELSE RunAfterWrites(C, CHOOSE q \in owner : TRUE)

ResumeAfterDeletes(C, owner) ==
    IF owner = Detached THEN C
    ELSE RunAfterDeletes(C, CHOOSE q \in owner : TRUE)

\* if (mySeq !== syncSeqRef.current) return; setSyncingSafe(false)
RunEnd(C, seq) ==
    [C EXCEPT !.pr.runs = {r \in @ : r.seq # seq},
              !.ui.syncing = IF seq = C.ui.syncSeq THEN FALSE ELSE @]

scheduleSyncSoon(C) == [C EXCEPT !.ui.syncTimer = TRUE]

\* ------------------------------------------------ the remote script (GET)
\* What the script answers at the moment it handles the request.  The
\* fetches of the page never look at the HTTP status, so a GET's answer is
\* kept as the class of its body.
GetKinds == {"ok_true", "ok_false", "malformed", "rejected"}

ServerHistory(rows) == Slice(rows, HistoryMax)
ServerLatest(rows) == IF rows = <<>> THEN <<>> ELSE <<Head(rows)>>

Throws(kind) == kind \in {"malformed", "rejected"}

\* save appends a row stamped with the script's id, clock and active cycle;
\* update and delete act on the row named by target
ServerApply(sv, payload) ==
    IF payload.room # ROOM THEN sv
    ELSE IF payload.action = "save"
    THEN [sv EXCEPT !.rows = <<[id |-> sv.nextId, date |-> now, dien |-> payload.dien,
                                nuoc |-> payload.nuoc, cycle |-> sv.cycle]>> \o @,
                    !.nextId = @ + 1]
    ELSE IF payload.action = "update"
    THEN [sv EXCEPT !.rows =
            [i \in 1..Len(@) |->
                IF \E t \in payload.target : @[i].id = t.id /\ @[i].date = t.date
                THEN [@[i] EXCEPT !.dien = payload.dien, !.nuoc = payload.nuoc]
                ELSE @[i]]]
    ELSE LET Kept(r) == ~(\E t \in payload.target : r.id = t.id /\ r.date = t.date)
         IN  [sv EXCEPT !.rows = SelectSeq(@, Kept)]

\* ------------------------------------------- reconciliation: continuations
\* refreshOverallLatestFromNetwork after its await: latestJson?.data || null
ApplyLatest(C, kind, data) ==
    IF Throws(kind) THEN C
    ELSE LET latestData == IF kind = "ok_true" THEN data ELSE <<>>
             C1 == [C EXCEPT !.ui.latestOverall = Range(latestData)]
         IN  IF latestData # <<>>
             THEN [C1 EXCEPT !.ls = upsertHouseLatestCache(@, latestData[1])]
             ELSE C1

\* refreshHistoryFromNetwork after its await: Array.isArray(j?.data) ? j.data : []
ApplyHistory(C, kind, data) ==
    IF Throws(kind) THEN C
    ELSE LET arr == IF kind = "ok_true" THEN data ELSE <<>>
             sorted == Slice(sortNewestFirst(arr), HistoryMax)
         IN  [C EXCEPT !.ui.history = sorted,
                       !.ls = writeHouseHistoryRoomListToCache(@, sorted)]

\* ------------------------------------------------ backgroundRefreshIfStale
\* Fresh with the boundary on the fresh side
FreshInclusive(env) == env.savedAt # 0 /\ now - env.savedAt <= TTL_MS

Fresh(env) == env.savedAt # 0 /\ now - env.savedAt < TTL_MS

NoBg == [phase |-> "idle", latestFresh |-> TRUE, histFresh |-> TRUE]

\* the fetch that follows the one of `phase`, or the closing loadFromCaches
BgNext(C, phase, latestFresh, histFresh) ==
    IF phase = "cycle" /\ ~latestFresh
    THEN [C EXCEPT !.pr.bg = [phase |-> "latest", latestFresh |-> latestFresh,
                              histFresh |-> histFresh]]
    ELSE IF phase \in {"cycle", "latest"} /\ ~histFresh
    THEN [C EXCEPT !.pr.bg = [phase |-> "hist", latestFresh |-> latestFresh,
                              histFresh |-> histFresh]]
    ELSE loadFromCaches([C EXCEPT !.pr.bg = NoBg])

backgroundRefreshIfStale(C) ==
    LET cycleFresh == Fresh(C.ls.cycle)
        latestFresh == Fresh(C.ls.latest)
        histFresh == Fresh(C.ls.hist) /\ Len(C.ls.hist.data) > 0
    IN  IF cycleFresh /\ latestFresh /\ histFresh THEN C
        ELSE IF ~cycleFresh
        THEN [C EXCEPT !.pr.bg = [phase |-> "cycle", latestFresh |-> latestFresh,
                                  histFresh |-> histFresh]]
        ELSE BgNext(C, "cycle", latestFresh, histFresh)

\* the continuation after the fetch of the current phase
BgContinue(C, kind) ==
    LET bg == C.pr.bg IN
    IF Throws(kind) THEN [C EXCEPT !.pr.bg = NoBg]
    ELSE IF bg.phase = "cycle"
    THEN BgNext(IF kind = "ok_true" /\ srv.cycle # ""
                THEN [C EXCEPT !.ui.cycleMonth = srv.cycle,
                               !.ls.cycle = [savedAt |-> now, data |-> srv.cycle]]
                ELSE C,
                "cycle", bg.latestFresh, bg.histFresh)
    ELSE IF bg.phase = "latest"
    THEN BgNext([C EXCEPT !.ls.latest =
                    [savedAt |-> now,
                     data |-> IF kind = "ok_true" THEN ServerLatest(srv.rows) ELSE <<>>]],
                "latest", bg.latestFresh, bg.histFresh)
    ELSE BgNext([C EXCEPT !.ls.hist =
                    [savedAt |-> now,
                     data |-> IF kind = "ok_true" THEN ServerHistory(srv.rows) ELSE <<>>]],
                "hist", bg.latestFresh, bg.histFresh)

\* ------------------------------------------------------ the two mutations
\* what the user typed: dien and nuoc after parseOptionalNumberFromInput
Inputs == {[dien |-> 7, nuoc |-> NoNum], [dien |-> NoNum, nuoc |-> NoNum]}

Valid(inp) == ~(inp.dien = NoNum /\ inp.nuoc = NoNum)

MatchesTarget(x, t) == x.id = t.id /\ x.date = t.date

\* The rows commitSaveReading works on.
\*   base: baseSameDayRow (a set: empty for null)
BaseSameDayRow(C) ==
    IF C.ui.editing # {} THEN {}
    ELSE {r \in C.ui.latestCycle : hasThisCycle(C.ui) /\ isSameVNDay(r.date, now)}

UpdateRow(C) == IF C.ui.editing # {} THEN C.ui.editing ELSE BaseSameDayRow(C)

Optimistic(C, inp) ==
    LET u == UpdateRow(C) IN
    [id |-> IF u # {} THEN (CHOOSE r \in u : TRUE).id ELSE 0 - now,
     date |-> IF u # {} THEN (CHOOSE r \in u : TRUE).date ELSE now,
     dien |-> inp.dien, nuoc |-> inp.nuoc, cycle |-> C.ui.cycleMonth]

TargetOf(rows) == {[id |-> r.id, date |-> r.date] : r \in rows}

\* the updater given to setHistory (lines 1915-1930)
NextHistory(C, inp) ==
    LET u == UpdateRow(C)
        opt == Optimistic(C, inp)
        prev == C.ui.history
    IN  IF u # {}
        THEN Slice(sortNewestFirst(
                 [i \in 1..Len(prev) |->
                     IF MatchesTarget(prev[i], opt) THEN opt ELSE prev[i]]), HistoryMax)
        ELSE Slice(<<opt>> \o prev, HistoryMax)

WritePayload(C, inp) ==
    [action |-> IF UpdateRow(C) # {} THEN "update" ELSE "save",
     room |-> ROOM, dien |-> inp.dien, nuoc |-> inp.nuoc,
     target |-> TargetOf(UpdateRow(C))]

\* an updater that would return the next list without writing it to the cache
RenderHistoryOnly(C, next) == Log([C EXCEPT !.ui.history = next], "render")

\* React runs the updater handed to setHistory in the render that follows
\* the handler (setSaving(true) has already queued an update, so it is not
\* computed at the call): the updater's cache write comes last in the turn.
RenderHistory(C, next) ==
    Log([C EXCEPT !.ui.history = next,
                  !.ls = writeHouseHistoryRoomListToCache(@, next)], "render")

\* commitSaveReading with a valid input, lines 1870-1969, in the order the
\* statements run; id is the outbox item's makeId()
SaveTurn(C, inp, id) ==
    LET opt == Optimistic(C, inp)
        next == NextHistory(C, inp)
        C1 == Log(Log(C, "commitSaveReading"), "setHistory")
        C2 == Log([C1 EXCEPT !.ls = upsertHouseLatestCache(@, opt)], "cacheLatest")
        C3 == Log([C2 EXCEPT !.ls = upsertHouseHistoryCache(@, opt, HistoryMax)],
                  "cacheHistory")
        C4 == [C3 EXCEPT !.ui.editing = {}]
        C5 == Log([C4 EXCEPT !.ls = enqueueWrite(@, id, WritePayload(C, inp))], "enqueue")
        C6 == flushWriteOutbox([C5 EXCEPT !.ui.syncing = TRUE], Detached)
    IN  RenderHistory(scheduleSyncSoon(C6), next)

\* deleteEditingRow after the confirm, lines 1978-2029
DeleteTurn(C) ==
    LET deleting == CHOOSE r \in C.ui.editing : TRUE
        target == [id |-> deleting.id, date |-> deleting.date]
        Kept(x) == ~MatchesTarget(x, target)
        nextHistory == Slice(sortNewestFirst(SelectSeq(C.ui.history, Kept)), HistoryMax)
        C1 == Log(Log([C EXCEPT !.ui.editing = {}, !.ui.msg = FALSE,
                                !.ui.history = nextHistory], "deleteEditingRow"),
                  "setHistory")
        C2 == Log([C1 EXCEPT !.ls = writeHouseHistoryRoomListToCache(@, nextHistory)],
                  "cacheHistory")
        C3 == Log([C2 EXCEPT !.ls = removeHouseLatestIfMatch(@, target)], "cacheLatest")
        C4 == [C3 EXCEPT !.ui.latestOverall = {r \in @ : ~MatchesTarget(r, target)}]
        C5 == Log([C4 EXCEPT !.ls = enqueueDelete(@, ROOM, target)], "enqueue")
        C6 == flushDeleteOutbox([C5 EXCEPT !.ui.syncing = TRUE], Detached)
    IN  scheduleSyncSoon(C6)

\* ------------------------------------------------------------------ Init
R0 == [id |-> 1, date |-> T0 - DayLen, dien |-> 5, nuoc |-> 3, cycle |-> "2026-03"]

InitUi ==
    [history |-> <<>>, latestOverall |-> {}, cycleMonth |-> "", latestCycle |-> {},
     editing |-> {},
     syncing |-> FALSE, syncTimer |-> FALSE, syncSeq |-> 0,
     flushingWrites |-> FALSE, flushingDeletes |-> FALSE, msg |-> FALSE]

InitPr == [wInv |-> {}, dInv |-> {}, runs |-> {}, bg |-> NoBg]

\* localStorage of a first visit, or as an earlier visit left it savedAt
CachesOf(rows, savedAt) ==
    [latest |-> [savedAt |-> savedAt,
                 data |-> IF rows = <<>> THEN <<>> ELSE <<Head(rows)>>],
     hist |-> [savedAt |-> savedAt, data |-> rows],
     cycle |-> [savedAt |-> savedAt, data |-> "2026-03"],
     wOutbox |-> <<>>, dOutbox |-> <<>>]

NoCaches ==
    [latest |-> NoEnvelope, hist |-> NoEnvelope, cycle |-> NoCycleEnvelope,
     wOutbox |-> <<>>, dOutbox |-> <<>>]

Init ==
    /\ now = T0
    /\ pin \in {PIN, ""}
    /\ mounted = FALSE
    /\ \E rows \in {<<>>, <<R0>>} :
          /\ srv = [rows |-> rows, nextId |-> 2, cycle |-> "2026-03"]
          /\ ls \in {NoCaches, CachesOf(rows, T0 - 1)}
    /\ ui = InitUi
    /\ pr = InitPr
    /\ turn = <<>>
    /\ att = {}
    /\ used = [mut |-> 0, steps |-> 0, post |-> 0]

\* --------------------------------------------------------------- actions
Commit(C) ==
    /\ ls' = C.ls
    /\ ui' \in Render(C.ui)
    /\ pr' = C.pr

\* the effect on [room, house], lines 1691-1722
Mount ==
    /\ ~mounted
    /\ mounted' = TRUE
    /\ LET C0 == [Client EXCEPT !.ui.editing = {}, !.ui.msg = FALSE,
                                !.ui.syncing = FALSE, !.ui.syncTimer = FALSE,
                                !.ui.syncSeq = 0]
           C1 == backgroundRefreshIfStale(loadFromCaches(C0))
       IN  Commit(flushDeleteOutbox(flushWriteOutbox(C1, Detached), Detached))
    /\ turn' = <<>> /\ att' = {}
    /\ UNCHANGED <<now, pin, srv, used>>

Tick ==
    /\ used.steps < MaxSteps
    /\ \E d \in {TTL_MS, DayLen} : now' = now + d
    /\ used' = [used EXCEPT !.steps = @ + 1]
    /\ turn' = <<>> /\ att' = {}
    /\ UNCHANGED <<pin, mounted, srv, ls, ui, pr>>

openEditRow ==
    /\ mounted
    /\ ui.editing = {}
    /\ \E r \in Range(ui.history) : ui' = [ui EXCEPT !.editing = {r}, !.msg = FALSE]
    /\ turn' = <<>> /\ att' = {}
    /\ UNCHANGED <<now, pin, mounted, srv, ls, pr, used>>

closeEditSheet ==
    /\ mounted
    /\ ui.editing # {}
    /\ ui' = [ui EXCEPT !.editing = {}, !.msg = FALSE]
    /\ turn' = <<>> /\ att' = {}
    /\ UNCHANGED <<now, pin, mounted, srv, ls, pr, used>>

\* commitSaveReading, lines 1859-1970
commitSaveReading ==
    /\ mounted
    /\ \E inp \in Inputs :
          IF Valid(inp)
          THEN /\ used.steps < MaxSteps
               /\ LET C == SaveTurn([Client EXCEPT !.ui.msg = FALSE], inp, used.mut + 1)
                  IN  Commit(C) /\ turn' = C.tr /\ att' = {}
               /\ used' = [used EXCEPT !.mut = @ + 1, !.steps = @ + 1]
          ELSE /\ used.steps < MaxSteps
               /\ ui' = [ui EXCEPT !.msg = TRUE]
               /\ used' = [used EXCEPT !.steps = @ + 1]
               /\ turn' = <<>> /\ att' = {}
               /\ UNCHANGED <<ls, pr>>
    /\ UNCHANGED <<now, pin, mounted, srv>>

deleteEditingRow ==
    /\ mounted
    /\ ui.editing # {}
    /\ used.steps < MaxSteps
    /\ LET C == DeleteTurn(Client) IN Commit(C) /\ turn' = C.tr /\ att' = {}
    /\ used' = [used EXCEPT !.mut = @ + 1, !.steps = @ + 1]
    /\ UNCHANGED <<now, pin, mounted, srv>>

onOnline ==
    /\ mounted
    /\ used.steps < MaxSteps
    /\ LET C0 == [Client EXCEPT !.ui.syncing = TRUE]
       IN  Commit(scheduleSyncSoon(
               flushDeleteOutbox(flushWriteOutbox(C0, Detached), Detached)))
    /\ used' = [used EXCEPT !.steps = @ + 1]
    /\ turn' = <<>> /\ att' = {}
    /\ UNCHANGED <<now, pin, mounted, srv>>

onVisibility ==
    /\ mounted
    /\ used.steps < MaxSteps
    /\ readWriteOutbox(ls) # <<>> \/ readDeleteOutbox(ls) # <<>>
    /\ LET C0 == [Client EXCEPT !.ui.syncing = TRUE]
       IN  Commit(scheduleSyncSoon(
               flushDeleteOutbox(flushWriteOutbox(C0, Detached), Detached)))
    /\ used' = [used EXCEPT !.steps = @ + 1]
    /\ turn' = <<>> /\ att' = {}
    /\ UNCHANGED <<now, pin, mounted, srv>>

\* the timer of scheduleSyncSoon fires
syncTimerFires ==
    /\ ui.syncTimer
    /\ Commit(runBackgroundSync([Client EXCEPT !.ui.syncTimer = FALSE]))
    /\ turn' = <<>> /\ att' = {}
    /\ UNCHANGED <<now, pin, mounted, srv, used>>

Fault(ok) == IF ok THEN 0 ELSE 1

\* the POST of a write item completes: lines 1520-1552, then the next item
\* or the finally and whoever awaited the flush
writeAttempt(inv, resp) ==
       LET item == Head(inv.todo)
           rest == Tail(inv.todo)
           clean == JsonOk(resp) /\ resp.status = 200
           C0 == [Client EXCEPT !.ls = WriteBookkeeping(@, item, resp)]
       IN  /\ used.post < MaxPosts
           /\ used.steps + Fault(clean) <= MaxSteps
           /\ used' = [used EXCEPT !.post = @ + 1, !.steps = @ + Fault(clean)]
           /\ srv' = IF JsonOk(resp) THEN ServerApply(srv, item.payload) ELSE srv
           /\ IF rest # <<>>
              THEN Commit([C0 EXCEPT !.pr.wInv =
                              (@ \ {inv}) \cup {[inv EXCEPT !.todo = rest]}])
              ELSE Commit(ResumeAfterWrites(
                              [C0 EXCEPT !.pr.wInv = @ \ {inv},
                                         !.ui.flushingWrites = FALSE], inv.owner))
           /\ turn' = <<>>
           /\ att' = {[queue |-> "write", item |-> item, resp |-> resp]}
           /\ UNCHANGED <<now, pin, mounted>>

deleteAttempt(inv, resp) ==
       LET item == Head(inv.todo)
           rest == Tail(inv.todo)
           clean == JsonOk(resp) /\ resp.status = 200
           C0 == [Client EXCEPT !.ls = DeleteBookkeeping(@, item, resp)]
       IN  /\ used.post < MaxPosts
           /\ used.steps + Fault(clean) <= MaxSteps
           /\ used' = [used EXCEPT !.post = @ + 1, !.steps = @ + Fault(clean)]
           /\ srv' = IF JsonOk(resp)
                     THEN ServerApply(srv, [action |-> "delete", room |-> item.room,
                                            target |-> {item.target}])
                     ELSE srv
           /\ IF rest # <<>>
              THEN Commit([C0 EXCEPT !.pr.dInv =
                              (@ \ {inv}) \cup {[inv EXCEPT !.todo = rest]}])
              ELSE Commit(ResumeAfterDeletes(
                              [C0 EXCEPT !.pr.dInv = @ \ {inv},
                                         !.ui.flushingDeletes = FALSE], inv.owner))
           /\ turn' = <<>>
           /\ att' = {[queue |-> "delete", item |-> item, resp |-> resp]}
           /\ UNCHANGED <<now, pin, mounted>>

writeAttemptDone == \E inv \in pr.wInv, resp \in Responses : writeAttempt(inv, resp)

deleteAttemptDone == \E inv \in pr.dInv, resp \in Responses : deleteAttempt(inv, resp)

\* Promise.all has both results: the run ends
RunJoin(C, r2) ==
    IF r2.latest = "done" /\ r2.hist = "done"
    THEN RunEnd(C, r2.seq)
    ELSE [C EXCEPT !.pr.runs = {x \in @ : x.seq # r2.seq} \cup {r2}]

\* the answer to a run's GET ?action=latest arrives
latestArrival(r, kind, rows) ==
       /\ r.phase = "fetch"
       /\ r.latest = "pending"
       /\ used.steps + Fault(kind = "ok_true") <= MaxSteps
       /\ used' = [used EXCEPT !.steps = @ + Fault(kind = "ok_true")]
       /\ Commit(RunJoin(ApplyLatest(Client, kind, ServerLatest(rows)),
                         [r EXCEPT !.latest = "done"]))
       /\ turn' = <<>> /\ att' = {}
       /\ UNCHANGED <<now, pin, mounted, srv>>

latestArrives ==
    \E r \in pr.runs, kind \in GetKinds : \E rows \in {srv.rows, r.sent} :
       latestArrival(r, kind, rows)

\* the answer to a run's GET ?action=history arrives
historyArrival(r, kind, rows) ==
       /\ r.phase = "fetch"
       /\ r.hist = "pending"
       /\ used.steps + Fault(kind = "ok_true") <= MaxSteps
       /\ used' = [used EXCEPT !.steps = @ + Fault(kind = "ok_true")]
       /\ Commit(RunJoin(ApplyHistory(Client, kind, ServerHistory(rows)),
                         [r EXCEPT !.hist = "done"]))
       /\ turn' = <<>> /\ att' = {}
       /\ UNCHANGED <<now, pin, mounted, srv>>

historyArrives ==
    \E r \in pr.runs, kind \in GetKinds : \E rows \in {srv.rows, r.sent} :
       historyArrival(r, kind, rows)

\* a fetch of backgroundRefreshIfStale completes
bgFetch(kind) ==
    /\ pr.bg.phase # "idle"
    /\ used.steps + Fault(kind = "ok_true") <= MaxSteps
    /\ used' = [used EXCEPT !.steps = @ + Fault(kind = "ok_true")]
    /\ Commit(BgContinue(Client, kind))
    /\ turn' = <<>> /\ att' = {}
    /\ UNCHANGED <<now, pin, mounted, srv>>

bgFetchDone == \E kind \in GetKinds : bgFetch(kind)

Next ==
    \/ Mount
    \/ Tick
    \/ openEditRow
    \/ closeEditSheet
    \/ commitSaveReading
    \/ deleteEditingRow
    \/ onOnline
    \/ onVisibility
    \/ syncTimerFires
    \/ writeAttemptDone
    \/ deleteAttemptDone
    \/ latestArrives
    \/ historyArrives
    \/ bgFetchDone

Spec == Init /\ [][Next]_vars

\* Every fetch the page has issued is settled in the end, by an answer or by
\* a rejection, and a timer that is set fires; nothing obliges the user, the
\* network status or the tab's visibility to act again.
SpecSettle ==
    /\ Init /\ [][Next]_vars
    /\ WF_vars(syncTimerFires)
    /\ WF_vars(writeAttemptDone)
    /\ WF_vars(deleteAttemptDone)
    /\ WF_vars(latestArrives)
    /\ WF_vars(historyArrives)
    /\ WF_vars(bgFetchDone)

\* ------------------------------------------- a visit that finds a backlog
\* localStorage is shared by every visit of every room's page: a visit can
\* find items that earlier ones left behind.
OtherRoom == "B2-07"

BacklogWrite(i, room, tries) ==
    [id |-> 1000 + i, createdAt |-> T0 - DayLen - i, tries |-> tries,
     payload |-> [action |-> "save", room |-> room, dien |-> 6, nuoc |-> NoNum,
                  target |-> {}]]

BacklogDelete(i, room, target, tries) ==
    [room |-> room, target |-> target, createdAt |-> T0 - DayLen - i, tries |-> tries]

\* one item of this room that has failed once, or an outbox at its cap with
\* the items of another room's page (index 1 is the newest)
Backlogs ==
    {[w |-> <<BacklogWrite(1, ROOM, 1)>>, d |-> <<>>],
     [w |-> <<>>, d |-> <<BacklogDelete(1, ROOM, [id |-> R0.id, date |-> R0.date], 1)>>],
     [w |-> [i \in 1..WriteOutboxCap |-> BacklogWrite(i, OtherRoom, 0)], d |-> <<>>],
     [w |-> <<>>,
      d |-> [i \in 1..DeleteOutboxCap |->
                BacklogDelete(i, OtherRoom, [id |-> 1000 + i, date |-> T0 - DayLen], 0)]]}

InitBacklog ==
    /\ now = T0
    /\ pin = PIN
    /\ mounted = FALSE
    /\ srv = [rows |-> <<R0>>, nextId |-> 2, cycle |-> "2026-03"]
    /\ \E b \in Backlogs :
          ls = [CachesOf(<<R0>>, T0 - 1) EXCEPT !.wOutbox = b.w, !.dOutbox = b.d]
    /\ ui = InitUi
    /\ pr = InitPr
    /\ turn = <<>>
    /\ att = {}
    /\ used = [mut |-> 0, steps |-> 0, post |-> 0]

SpecBacklog == InitBacklog /\ [][Next]_vars

\* ------------------------------------------------- the resolver by itself
\* Readings as the script can return them: stamped with a cycle or not, and
\* with a date that parses or not.
ResolverRows ==
    {[id |-> 1, date |-> T0 - (2 * DayLen), dien |-> 10, nuoc |-> 1, cycle |-> "2026-03"],
     [id |-> 2, date |-> T0 - DayLen, dien |-> 20, nuoc |-> 2, cycle |-> "2026-03"],
     [id |-> 3, date |-> InvalidDate, dien |-> 30, nuoc |-> 3, cycle |-> "2026-02"],
     [id |-> 4, date |-> T0 - MonthLen, dien |-> 40, nuoc |-> NoNum, cycle |-> ""],
     [id |-> 5, date |-> InvalidDate, dien |-> 50, nuoc |-> 5, cycle |-> ""],
     [id |-> 6, date |-> T0 - DayLen, dien |-> 60, nuoc |-> 6, cycle |-> "2026-3"]}

\* What the cycle cache or cycleGet can deliver: nothing, a month key, or a
\* string that is not one (the page takes any non-empty string).
ResolverKeys == {"", "2026-02", "2026-03", "unknown", "2026-3"}

MaxHistory == 3

ResolverHistories ==
    {h \in UNION {[1..n -> ResolverRows] : n \in 0..MaxHistory} :
        \A i, j \in 1..Len(h) : i # j => h[i] # h[j]}

InitResolver ==
    /\ now = T0
    /\ pin = PIN
    /\ mounted = FALSE
    /\ srv = [rows |-> <<>>, nextId |-> 2, cycle |-> "2026-03"]
    /\ ls = NoCaches
    /\ \E h \in ResolverHistories, k \in ResolverKeys :
          ui = [InitUi EXCEPT !.history = h, !.cycleMonth = k]
    /\ pr = InitPr
    /\ turn = <<>>
    /\ att = {}
    /\ used = [mut |-> 0, steps |-> 0, post |-> 0]

\* the component renders: the memo and the cards are computed
RoomPageRender ==
    /\ ~mounted
    /\ mounted' = TRUE
    /\ ui' \in Render(ui)
    /\ UNCHANGED <<now, pin, srv, ls, pr, turn, att, used>>

NextResolver == RoomPageRender

SpecResolver == InitResolver /\ [][NextResolver]_vars

\* ------------------------------------------- the cache upsert by itself
\* the max given to upsertMonthlyHistory: a small one, and the page's 24
UpsertMax == 2

UpsertRooms == {ROOM, OtherRoom}

\* the cached map: this room's list is any history, the other room's entry
\* is absent or holds one reading
UpsertCaches ==
    {[r \in D |-> IF r = ROOM THEN h ELSE <<R0>>] :
        h \in ResolverHistories, D \in SUBSET UpsertRooms}

InitUpsert ==
    /\ now = T0
    /\ pin = PIN
    /\ mounted = FALSE
    /\ srv = [rows |-> <<>>, nextId |-> 2, cycle |-> "2026-03"]
    /\ \E data \in UpsertCaches :
          ls = [NoCaches EXCEPT !.hist = [savedAt |-> T0 - 1, data |-> data]]
    /\ ui = InitUi
    /\ pr = InitPr
    /\ turn = <<>>
    /\ att = {}
    /\ used = [mut |-> 0, steps |-> 0, post |-> 0]

\* upsertHouseHistoryCache(house, reading, maxPerRoom) is called; turn keeps
\* the call: its arguments and the map it found
upsertHistoryCall ==
    /\ turn = <<>>
    /\ \E room \in UpsertRooms, reading \in ResolverRows, max \in {UpsertMax, HistoryMax} :
          /\ ls' = [ls EXCEPT !.hist =
                       [savedAt |-> now,
                        data |-> upsertHouseHistoryCacheMap(@.data, room, reading, max)]]
          /\ turn' = <<[room |-> room, reading |-> reading, max |-> max,
                        before |-> ls.hist.data]>>
    /\ UNCHANGED <<now, pin, mounted, srv, ui, pr, att, used>>

NextUpsert == upsertHistoryCall

SpecUpsert == InitUpsert /\ [][NextUpsert]_vars

\* ================================================ month keys, as strings
\* In the specifications below a string is the sequence of its characters,
\* so that formatting, parsing and the YYYY-MM test are computed.
DigitChars == <<"0", "1", "2", "3", "4", "5", "6", "7", "8", "9">>
IsDigit(c) == \E d \in 1..10 : DigitChars[d] = c
DigitOf(c) == (CHOOSE d \in 1..10 : DigitChars[d] = c) - 1

\* s.trim()
RECURSIVE trim(_)
trim(s) ==
    IF s = <<>> THEN s
    ELSE IF s[1] = " " THEN trim(Tail(s))
    ELSE IF s[Len(s)] = " " THEN trim(SubSeq(s, 1, Len(s) - 1))
    ELSE s

\* Number(s) of a string of digits (Number("03") is 3)
RECURSIVE NumberOf(_)
NumberOf(s) ==
    IF s = <<>> THEN 0
    ELSE (10 * NumberOf(SubSeq(s, 1, Len(s) - 1))) + DigitOf(s[Len(s)])

\* String(n): no leading zeros
RECURSIVE StringOf(_)
StringOf(n) ==
    IF n < 0 THEN <<"-">> \o StringOf(0 - n)
    ELSE IF n < 10 THEN <<DigitChars[n + 1]>>
    ELSE StringOf(n \div 10) \o <<DigitChars[(n % 10) + 1]>>

\* String(n).padStart(2, "0")
pad2(n) == IF Len(StringOf(n)) < 2 THEN <<"0">> \o StringOf(n) ELSE StringOf(n)

\* s.split("-")
RECURSIVE split(_)
split(s) ==
    IF \A i \in 1..Len(s) : s[i] # "-" THEN <<s>>
    ELSE LET i == CHOOSE i \in 1..Len(s) :
                      s[i] = "-" /\ \A j \in 1..(i - 1) : s[j] # "-"
         IN  <<SubSeq(s, 1, i - 1)>> \o split(SubSeq(s, i + 1, Len(s)))

\* /^\d{4}-\d{2}$/.test(String(s || "").trim())
isMonthKey(s) ==
    LET t == trim(s)
    IN  /\ Len(t) = 7
        /\ \A i \in {1, 2, 3, 4, 6, 7} : IsDigit(t[i])
        /\ t[5] = "-"

\* A Date on the first of a month, in local time: y is getFullYear(), m is
\* getMonth().  new Date(year, monthIndex, 1) takes the years 0..99 as
\* 1900..1999 and carries a month index outside 0..11 into the year.
NewDate(year, monthIndex) ==
    LET yr == IF year >= 0 /\ year <= 99 THEN 1900 + year ELSE year
    IN  [y |-> yr + (monthIndex \div 12), m |-> monthIndex % 12]

\* d.setMonth(monthIndex)
setMonth(d, monthIndex) ==
    [y |-> d.y + (monthIndex \div 12), m |-> monthIndex % 12]

\* `${d.getFullYear()}-${String(d.getMonth() + 1).padStart(2, "0")}`
monthKey(d) == StringOf(d.y) \o <<"-">> \o pad2(d.m + 1)

\* ============================================== approving the next month
\* Home (src/unnamed/part_002) and the /api/meter handler it calls
\* (src/unnamed/part_009), with the remote script behind it.

\* VTPT_ADMIN_PINS
AdminPins == {"0511", "2222"}
\* VTPT_PINS: pin -> name
PinNames == [p \in {"1111", "2222"} |-> IF p = "1111" THEN "Masie" ELSE "Brother"]
\* no x-vtpt-pin header, no pin in the body
NoPin == "<none>"

isAdminPin(p) == p # "" /\ p \in AdminPins
isUserPin(p) == p # "" /\ (isAdminPin(p) \/ p \in DOMAIN PinNames)
\* "" stands for undefined
actorForPin(p) == IF p \in DOMAIN PinNames THEN PinNames[p] ELSE ""

\* typeof headerPin === "string" ? headerPin : typeof body.pin === "string" ? body.pin : ""
getPin(req) ==
    IF req.headerPin # NoPin THEN req.headerPin
    ELSE IF req.bodyPin # NoPin THEN req.bodyPin
    ELSE ""

\* the action of the query, else the action of the body
getAction(req) == IF req.queryAction # "" THEN req.queryAction ELSE req.bodyAction

\* what the remote script does with a POST: "ok" applies it and answers
\* { ok: true }, "lost" applies it and the answer never arrives, "refused"
\* answers { ok: false }, "error" answers { ok: false } with status 500,
\* "not_json" answers with a page that is no JSON
ScriptOutcomes == {"ok", "lost", "refused", "error", "not_json"}

ScriptApplies(outcome) == outcome \in {"ok", "lost"}

\* the active cycle of the remote script after the POST of payload
ScriptCycle(cycle, payload, outcome) ==
    IF ScriptApplies(outcome) /\ payload.action = "cycleSet" THEN payload.month
    ELSE cycle

\* fetchJson: the status and the envelope, or a throw
fetchJsonPost(outcome) ==
    CASE outcome = "ok" -> [thrown |-> FALSE, status |-> 200, ok |-> TRUE]
      [] outcome = "refused" -> [thrown |-> FALSE, status |-> 200, ok |-> FALSE]
      [] outcome = "error" -> [thrown |-> FALSE, status |-> 500, ok |-> FALSE]
      [] OTHER -> [thrown |-> TRUE, status |-> 0, ok |-> FALSE]

\* the body scriptCycleSet posts
scriptCycleSet(month, actor) ==
    [action |-> "cycleSet", month |-> month, actor |-> actor]

\* nextMonth with the month advanced inside the year only
nextMonthSameYear(key) ==
    LET p == split(key)
        d == NewDate(NumberOf(p[1]), NumberOf(p[2]) - 1)
    IN  monthKey([y |-> d.y, m |-> (d.m + 1) % 12])

nextMonth(key) ==
    LET p == split(key)
        d == NewDate(NumberOf(p[1]), NumberOf(p[2]) - 1)
    IN  monthKey(setMonth(d, d.m + 1))

Answer(status, ok, next) == [status |-> status, ok |-> ok, nextMonthKey |-> next]

\* the answer of the handler and the bodies it posts to the remote script;
\* today is the server's new Date()
Relay(body, outcome, next) ==
    LET r == fetchJsonPost(outcome)
    IN  [posts |-> <<body>>,
         res |-> IF r.thrown THEN Answer(500, FALSE, <<>>)
                 ELSE IF next # <<>> /\ r.ok /\ r.status < 400
                      THEN Answer(200, TRUE, next)
                 ELSE Answer(r.status, r.ok, <<>>)]

handlerPost(req, outcome, today) ==
    LET action == getAction(req)
        p == getPin(req)
        actor == actorForPin(p)
    IN  IF action = "" THEN [posts |-> <<>>, res |-> Answer(400, FALSE, <<>>)]
        ELSE IF action \in {"approve", "cycleSet"} THEN
            IF ~isAdminPin(p) THEN [posts |-> <<>>, res |-> Answer(401, FALSE, <<>>)]
            ELSE IF action = "cycleSet" THEN
                IF ~isMonthKey(trim(req.month))
                THEN [posts |-> <<>>, res |-> Answer(400, FALSE, <<>>)]
                ELSE Relay(scriptCycleSet(trim(req.month), actor), outcome, <<>>)
            ELSE
                LET current == IF isMonthKey(req.currentCycleKey)
                               THEN req.currentCycleKey ELSE monthKey(today)
                IN  Relay(scriptCycleSet(nextMonth(current), actor), outcome,
                          nextMonth(current))
        ELSE IF ~isUserPin(p) THEN [posts |-> <<>>, res |-> Answer(401, FALSE, <<>>)]
        ELSE Relay([action |-> req.bodyAction, month |-> req.month, actor |-> actor],
                   outcome, <<>>)

\* ---- Home
\* (localStorage.getItem("vtpt_cycle_month") || "").trim(), null when empty
readCycleKeySafe(st) == trim(st.cycleMonth)

CycleOrToday(st, today) ==
    IF readCycleKeySafe(st) # <<>> THEN readCycleKeySafe(st) ELSE monthKey(today)

HomeUi == [open |-> FALSE, approving |-> FALSE, approveMsg |-> FALSE,
           cycle |-> <<>>, alerts |-> 0]
NoFetch == [state |-> "none"]

\* the months the clock and the cache are drawn from: November 2026 and
\* the ApproveMonths months after it
ApproveMonths == 3
ApproveDates == {NewDate(2026, 10 + i) : i \in 0..ApproveMonths}
MaxApprovals == 2

InitApprove ==
    /\ now \in ApproveDates
    /\ pin = ""
    /\ mounted = FALSE
    /\ \E d \in ApproveDates : srv = [cycle |-> monthKey(d), posts |-> <<>>]
    /\ \E k \in {<<>>} \cup {monthKey(d) : d \in ApproveDates} : ls = [cycleMonth |-> k]
    /\ ui = HomeUi
    /\ pr = NoFetch
    /\ turn = <<>>
    /\ att = {}
    /\ used = [mut |-> 0, steps |-> 0, post |-> 0]

\* the mount effect of Home; also the page after window.location.reload()
HomeMount ==
    /\ ~mounted
    /\ mounted' = TRUE
    /\ ui' = [HomeUi EXCEPT !.cycle = CycleOrToday(ls, now)]
    /\ pin' = ""
    /\ UNCHANGED <<now, srv, ls, pr, turn, att, used>>

\* the Approve button opens the sheet; the effect of [open] runs
openSheet ==
    /\ mounted /\ ~ui.approving /\ ~ui.open
    /\ ui' = [ui EXCEPT !.open = TRUE, !.cycle = CycleOrToday(ls, now),
                        !.approveMsg = FALSE]
    /\ pin' = ""
    /\ UNCHANGED <<now, mounted, srv, ls, pr, turn, att, used>>

\* the PIN field: setPin(digitsOnly(e.target.value))
typePin ==
    /\ mounted /\ ui.open /\ ~ui.approving
    /\ \E p \in {"", "0511", "2222", "1111", "9999"} : p # pin /\ pin' = p
    /\ UNCHANGED <<now, mounted, srv, ls, ui, pr, turn, att, used>>

\* approveNextMonth, up to the await of fetch
approveNextMonth ==
    /\ mounted /\ ui.open /\ ~ui.approving /\ pr.state = "none"
    /\ used.steps < MaxApprovals
    /\ IF pin = ""
       THEN /\ ui' = [ui EXCEPT !.alerts = 1]
            /\ UNCHANGED <<pr, used>>
       ELSE /\ ui' = [ui EXCEPT !.approving = TRUE, !.approveMsg = FALSE]
            /\ pr' = [state |-> "sent",
                      req |-> [headerPin |-> NoPin, bodyPin |-> pin,
                               queryAction |-> "approve", bodyAction |-> "",
                               month |-> <<>>,
                               currentCycleKey |-> CycleOrToday(ls, now)]]
            /\ used' = [used EXCEPT !.steps = @ + 1]
    /\ turn' = <<>>
    /\ UNCHANGED <<now, pin, mounted, srv, ls, att>>

\* the request reaches the handler, which answers, and the answer arrives or
\* is lost; or the fetch of the page fails before the handler ran
handlerRuns ==
    /\ pr.state = "sent"
    /\ \/ /\ pr' = [state |-> "failed"]
          /\ turn' = <<>>
          /\ UNCHANGED srv
       \/ \E outcome \in ScriptOutcomes, arrives \in BOOLEAN :
             LET h == handlerPost(pr.req, outcome, now)
             IN  /\ pr' = IF arrives THEN [state |-> "answered", res |-> h.res]
                          ELSE [state |-> "failed"]
                 /\ turn' = <<[req |-> pr.req, outcome |-> outcome, posts |-> h.posts,
                               res |-> h.res, cycle |-> srv.cycle]>>
                 /\ srv' = [cycle |-> IF h.posts = <<>> THEN srv.cycle
                                      ELSE ScriptCycle(srv.cycle, h.posts[1], outcome),
                            posts |-> h.posts]
    /\ UNCHANGED <<now, pin, mounted, ls, ui, att, used>>

\* approveNextMonth, after the await: the answer, or the catch; then finally
approveAnswered ==
    /\ pr.state \in {"answered", "failed"}
    /\ LET good == pr.state = "answered" /\ pr.res.status \in 200..299 /\ pr.res.ok
           next == IF good THEN trim(pr.res.nextMonthKey) ELSE <<>>
           write == good /\ next # <<>> /\ isMonthKey(next)
       IN  /\ ls' = IF write THEN [cycleMonth |-> next] ELSE ls
           /\ ui' = [ui EXCEPT !.cycle = IF write THEN next ELSE @,
                               !.approveMsg = TRUE, !.alerts = 1,
                               !.approving = FALSE, !.open = FALSE]
           /\ pr' = [state |-> IF good THEN "reload" ELSE "none"]
    /\ turn' = <<>>
    /\ UNCHANGED <<now, pin, mounted, srv, att, used>>

\* window.setTimeout(() => window.location.reload(), 50)
reload ==
    /\ pr.state = "reload" /\ ~ui.approving
    /\ mounted' = FALSE
    /\ ui' = HomeUi
    /\ pr' = NoFetch
    /\ turn' = <<>>
    /\ UNCHANGED <<now, pin, srv, ls, att, used>>

\* the month changes
nextCalendarMonth ==
    /\ setMonth(now, now.m + 1) \in ApproveDates
    /\ now' = setMonth(now, now.m + 1)
    /\ UNCHANGED <<pin, mounted, srv, ls, ui, pr, turn, att, used>>

NextApprove ==
    \/ HomeMount
    \/ openSheet
    \/ typePin
    \/ approveNextMonth
    \/ handlerRuns
    \/ approveAnswered
    \/ reload
    \/ nextCalendarMonth

SpecApprove == InitApprove /\ [][NextApprove]_vars

\* ================================================== POST /api/meter
\* The handler of src/pages/api/meter.ts, and the earlier handler of
\* src/unnamed/part_009, each given one request.

\* JSON values of a request body
Undefined == [t |-> "undefined"]
Null == [t |-> "null"]
Num(v) == [t |-> "num", v |-> v]
Str(s) == [t |-> "str", s |-> s]

\* Number(x): "" and null are 0, a string of digits is its number, any other
\* string and undefined are NaN
ToNumber(x) ==
    CASE x.t = "num" -> [finite |-> TRUE, v |-> x.v]
      [] x.t = "null" -> [finite |-> TRUE, v |-> 0]
      [] x.t = "str" /\ \A i \in 1..Len(trim(x.s)) : IsDigit(trim(x.s)[i]) ->
             [finite |-> TRUE, v |-> NumberOf(trim(x.s))]
      [] OTHER -> [finite |-> FALSE, v |-> 0]

\* String(x)
StringValue(x) ==
    CASE x.t = "str" -> x.s
      [] x.t = "num" -> StringOf(x.v)
      [] x.t = "null" -> <<"n", "u", "l", "l">>
      [] OTHER -> <<"u", "n", "d", "e", "f", "i", "n", "e", "d">>

hasFiniteNumber(x) == x.t \notin {"null", "undefined"} /\ ToNumber(x).finite

\* VTPT_PINS unset or without a pin:name pair
NoNames == [p \in {} |-> ""]

\* the error of requirePinActor, 0 when there is none
requirePinActor(env, req) ==
    IF DOMAIN env = {} THEN 500
    ELSE IF req.headerPin \in {NoPin, ""} \/ req.headerPin \notin DOMAIN env THEN 401
    ELSE 0

requireAdmin(env, req) ==
    IF requirePinActor(env, req) # 0 THEN requirePinActor(env, req)
    ELSE IF req.headerPin \notin AdminPins THEN 403
    ELSE 0

Refuse(status) == [posts |-> <<>>, res |-> Answer(status, FALSE, <<>>)]

\* the POST branch of the handler: the bodies posted to the remote script
\* and the answer
handler(env, req, outcome) ==
    LET actionRaw == IF req.bodyAction = "" THEN "save" ELSE req.bodyAction
        actor == IF req.headerPin \in DOMAIN env THEN env[req.headerPin] ELSE ""
        action == IF actionRaw \in {"update", "delete"} THEN actionRaw ELSE "save"
        target == req.target
        hasTarget == target.t = "obj"
        targetId == IF hasTarget /\ target.id.t # "undefined"
                    THEN ToNumber(target.id) ELSE [finite |-> FALSE, v |-> 0]
        targetDate == IF hasTarget /\ target.date.t # "undefined"
                      THEN trim(StringValue(target.date)) ELSE <<>>
        cycle == IF req.cycle.t = "str" THEN trim(req.cycle.s) ELSE <<>>
        tgt == [id |-> targetId.v, date |-> targetDate]
    IN  IF actionRaw = "cycleSet" THEN
            IF requireAdmin(env, req) # 0 THEN Refuse(requireAdmin(env, req))
            ELSE IF ~isMonthKey(trim(req.month)) THEN Refuse(400)
            ELSE Relay(scriptCycleSet(trim(req.month), actor), outcome, <<>>)
        ELSE IF requirePinActor(env, req) # 0 THEN Refuse(requirePinActor(env, req))
        ELSE IF req.room = "" THEN Refuse(400)
        ELSE IF action \in {"update", "delete"} /\ ~hasTarget THEN Refuse(400)
        ELSE IF action \in {"update", "delete"} /\ targetDate = <<>> THEN Refuse(400)
        ELSE IF action \in {"update", "delete"} /\ ~targetId.finite THEN Refuse(400)
        ELSE IF action # "delete" /\ ~hasFiniteNumber(req.dien)
                /\ ~hasFiniteNumber(req.nuoc) THEN Refuse(400)
        ELSE IF cycle # <<>> /\ ~isMonthKey(cycle) THEN Refuse(400)
        ELSE IF action = "delete"
             THEN Relay([action |-> action, room |-> req.room, actor |-> actor,
                         target |-> tgt], outcome, <<>>)
        ELSE Relay([action |-> action, room |-> req.room, actor |-> actor,
                    dien |-> IF hasFiniteNumber(req.dien)
                             THEN ToNumber(req.dien).v ELSE NoNum,
                    nuoc |-> IF hasFiniteNumber(req.nuoc)
                             THEN ToNumber(req.nuoc).v ELSE NoNum,
                    cycle |-> cycle,
                    target |-> IF action = "update" THEN tgt
                               ELSE [id |-> 0, date |-> <<>>]],
                   outcome, <<>>)

\* ---- the requests
Key(y, m) == monthKey([y |-> y, m |-> m - 1])
BadKey == <<"2", "0", "2", "6", "-", "3">>
\* the POST requests src/pages/api/meter.ts is given: the x-vtpt-pin header,
\* body.action, body.month, body.room, body.target, body.dien, body.nuoc and
\* body.cycle
MeterRequests ==
    LET aDate == Str(<<"2", "0", "2", "6", "-", "0", "3", "-", "0", "5">>)
    IN  [to : {"meter.ts"},
         headerPin : {NoPin, "", "2222", "1111", "9999"},
         bodyAction : {"", "save", "update", "delete", "cycleSet", "approve"},
         month : {<<>>, Key(2027, 5), BadKey},
         room : {"", ROOM},
         target : {Undefined,
                   [t |-> "obj", id |-> Num(2), date |-> aDate],
                   [t |-> "obj", id |-> Undefined, date |-> aDate],
                   [t |-> "obj", id |-> Str(<<"x">>), date |-> aDate],
                   [t |-> "obj", id |-> Num(2), date |-> Undefined],
                   [t |-> "obj", id |-> Num(2), date |-> Str(<<" ">>)]},
         dien : {Undefined, Null, Num(7), Str(<<"1", "2">>), Str(<<>>), Str(<<"a">>)},
         nuoc : {Undefined, Num(3)},
         cycle : {Undefined, Str(Key(2026, 3)), Str(BadKey), Num(202603)}]

\* the POST requests the handler of src/unnamed/part_009 is given: the
\* header, body.pin, the action of the query and of the body, body.month
\* and body.currentCycleKey
EarlierRequests ==
    [to : {"part_009"},
     headerPin : {NoPin, "", "2222", "1111", "9999"},
     bodyPin : {NoPin, "1111", "2222"},
     queryAction : {"", "save", "approve", "cycleSet"},
     bodyAction : {"", "save", "approve", "cycleSet"},
     month : {<<>>, Key(2027, 5), BadKey},
     currentCycleKey : {<<>>, Key(2026, 12)}]

InitProxy ==
    /\ now = NewDate(2026, 10)
    /\ pin = ""
    /\ mounted = FALSE
    /\ srv = [cycle |-> Key(2026, 11), posts |-> <<>>]
    /\ ls = [cycleMonth |-> <<>>]
    /\ ui = HomeUi
    /\ \E env \in {PinNames, NoNames}, req \in MeterRequests \cup EarlierRequests :
          pr = [state |-> "sent", env |-> env, req |-> req]
    /\ turn = <<>>
    /\ att = {}
    /\ used = [mut |-> 0, steps |-> 0, post |-> 0]

Handled(h, outcome) ==
    /\ pr' = [state |-> "answered", res |-> h.res]
    /\ turn' = <<[env |-> pr.env, req |-> pr.req, outcome |-> outcome,
                  posts |-> h.posts, res |-> h.res, cycle |-> srv.cycle]>>
    /\ srv' = [cycle |-> IF h.posts = <<>> THEN srv.cycle
                         ELSE ScriptCycle(srv.cycle, h.posts[1], outcome),
               posts |-> h.posts]
    /\ UNCHANGED <<now, pin, mounted, ls, ui, att, used>>

\* src/pages/api/meter.ts answers the request
handlerMeter ==
    /\ pr.state = "sent" /\ pr.req.to = "meter.ts"
    /\ \E outcome \in ScriptOutcomes : Handled(handler(pr.env, pr.req, outcome), outcome)

\* the handler of src/unnamed/part_009 answers the request
handlerEarlier ==
    /\ pr.state = "sent" /\ pr.req.to = "part_009" /\ pr.env = PinNames
    /\ \E outcome \in ScriptOutcomes : Handled(handlerPost(pr.req, outcome, now), outcome)

NextProxy ==
    \/ handlerMeter
    \/ handlerEarlier

SpecProxy == InitProxy /\ [][NextProxy]_vars

\* ============================================ cycle keys from dates
\* cycleKeyFromReadingDate of src/pages/house/[house].tsx and addMonth of
\* src/pages/index.tsx, each applied to inputs drawn from bounded sets.

\* days before this day of the month count for the month, the others for
\* the next one
CYCLE_ROLLOVER_DAY == 25

\* hours Asia/Ho_Chi_Minh is ahead of UTC
VnOffsetHours == 7

IsLeapYear(y) == (y % 4 = 0 /\ y % 100 # 0) \/ y % 400 = 0

DaysInMonth(y, m) ==
    IF m = 2 THEN (IF IsLeapYear(y) THEN 29 ELSE 28)
    ELSE IF m \in {4, 6, 9, 11} THEN 30
    ELSE 31

\* the civil day after / before the day of t
NextDay(t) ==
    IF t.d < DaysInMonth(t.y, t.m) THEN [t EXCEPT !.d = @ + 1]
    ELSE IF t.m < 12 THEN [t EXCEPT !.d = 1, !.m = @ + 1]
    ELSE [t EXCEPT !.d = 1, !.m = 1, !.y = @ + 1]

PrevDay(t) ==
    IF t.d > 1 THEN [t EXCEPT !.d = @ - 1]
    ELSE IF t.m > 1 THEN [t EXCEPT !.d = DaysInMonth(t.y, t.m - 1), !.m = @ - 1]
    ELSE [t EXCEPT !.d = 31, !.m = 12, !.y = @ - 1]

\* the ISO string (UTC) of an hour of the clock in Asia/Ho_Chi_Minh
IsoOfVn(t) ==
    IF t.h >= VnOffsetHours THEN [t EXCEPT !.h = @ - VnOffsetHours]
    ELSE [PrevDay(t) EXCEPT !.h = t.h + 24 - VnOffsetHours]

\* a result of null
NoKey == <<"n", "u", "l", "l">>
\* a date string new Date() cannot parse
BadDateStr == [y |-> 0, m |-> 0, d |-> 0, h |-> 0]

\* vnYMD: the year, month and day Intl.DateTimeFormat gives for the time
\* zone Asia/Ho_Chi_Minh
vnYMD(dateStr) ==
    IF dateStr.h + VnOffsetHours < 24 THEN [dateStr EXCEPT !.h = @ + VnOffsetHours]
    ELSE [NextDay(dateStr) EXCEPT !.h = dateStr.h + VnOffsetHours - 24]

monthKeyFromParts(y, m) == StringOf(y) \o <<"-">> \o pad2(m)

nextMonthKey(key) ==
    IF ~isMonthKey(key) THEN key
    ELSE LET p == split(key)
             mm == NumberOf(p[2])
             d == NewDate(NumberOf(p[1]), (IF mm = 0 THEN 1 ELSE mm) - 1)
         IN  monthKey(setMonth(d, d.m + 1))

\* cycleKeyFromReadingDate with the day of the rollover left in its month
cycleKeyFromReadingDateAfter(dateStr) ==
    IF dateStr = BadDateStr THEN NoKey
    ELSE LET parts == vnYMD(dateStr)
             mk == monthKeyFromParts(parts.y, parts.m)
         IN  IF ~isMonthKey(mk) THEN NoKey
             ELSE IF parts.d > CYCLE_ROLLOVER_DAY THEN nextMonthKey(mk)
             ELSE mk

cycleKeyFromReadingDate(dateStr) ==
    IF dateStr = BadDateStr THEN NoKey
    ELSE LET parts == vnYMD(dateStr)
             mk == monthKeyFromParts(parts.y, parts.m)
         IN  IF ~isMonthKey(mk) THEN NoKey
             ELSE IF parts.d >= CYCLE_ROLLOVER_DAY THEN nextMonthKey(mk)
             ELSE mk

\* monthKeyNow: today is new Date()
monthKeyNow(today) == monthKey(today)

addMonth(month, delta, today) ==
    IF ~isMonthKey(month) THEN monthKeyNow(today)
    ELSE LET p == split(month)
             base == NewDate(NumberOf(p[1]), NumberOf(p[2]) - 1 + delta)
         IN  monthKey(base)

\* ---- the inputs
\* readings are dated in 2026 and the CycleYears years after it
CycleYears == 2
\* the days of these years, at these hours of the day in Asia/Ho_Chi_Minh:
\* the first, the two around the change of the UTC day, the last
VnTimes ==
    {t \in [y : 2026..(2026 + CycleYears), m : 1..12, d : 1..31,
            h : {0, VnOffsetHours - 1, VnOffsetHours, 23}] :
        t.d <= DaysInMonth(t.y, t.m)}

\* strings of four digits, a hyphen and two digits, and some that are not
KeyInputs ==
    {SubSeq(StringOf(10000 + y), 2, 5) \o <<"-">> \o pad2(mo) :
        y \in {0, 99, 100, 999, 1000, 2026, 9999}, mo \in 0..99}
    \cup {<<>>, BadKey, <<"2", "0", "2", "6", "0", "3">>}

InitCycleKey ==
    /\ now = NewDate(2026, 10)
    /\ pin = ""
    /\ mounted = FALSE
    /\ srv = [cycle |-> Key(2026, 11), posts |-> <<>>]
    /\ ls = [cycleMonth |-> <<>>]
    /\ ui = HomeUi
    /\ \/ \E t \in VnTimes : pr = [input |-> "date", vn |-> t, dateStr |-> IsoOfVn(t)]
       \/ pr = [input |-> "date", vn |-> BadDateStr, dateStr |-> BadDateStr]
       \/ \E k \in KeyInputs : pr = [input |-> "key", key |-> k]
    /\ turn = <<>>
    /\ att = {}
    /\ used = [mut |-> 0, steps |-> 0, post |-> 0]

\* cycleKeyFromReadingDate(reading.date) is called
cycleKeyCall ==
    /\ pr.input = "date" /\ turn = <<>>
    /\ turn' = <<[fn |-> "cycleKeyFromReadingDate", vn |-> pr.vn,
                  result |-> cycleKeyFromReadingDate(pr.dateStr)]>>
    /\ UNCHANGED <<now, pin, mounted, srv, ls, ui, pr, att, used>>

\* addMonth is called on the key, and then on the result
addMonthCall ==
    /\ pr.input = "key" /\ Len(turn) < 2
    /\ \E delta \in {1, 0 - 1} :
          LET arg == IF turn = <<>> THEN pr.key ELSE turn[1].result
          IN  turn' = Append(turn, [fn |-> "addMonth", arg |-> arg, delta |-> delta,
                                    result |-> addMonth(arg, delta, now)])
    /\ UNCHANGED <<now, pin, mounted, srv, ls, ui, pr, att, used>>

NextCycleKey ==
    \/ cycleKeyCall
    \/ addMonthCall

SpecCycleKey == InitCycleKey /\ [][NextCycleKey]_vars

\* ============================================== cached envelopes and TTL
\* The room page is opened, or a component with useCycle
\* (src/unnamed/part_011) is mounted, over caches of every age around the
\* TTL.

\* TTL_MS of useCycle: 5 minutes
CYCLE_TTL_MS == 5

\* readCache at time t; cycleKeyAt is 0 when vtpt_cycle_key_at is not there
readCache(st, t) ==
    LET fresh == /\ st.cycleKey # <<>> /\ isMonthKey(st.cycleKey)
                 /\ t - st.cycleKeyAt < CYCLE_TTL_MS
    IN  [key |-> IF fresh THEN st.cycleKey ELSE <<>>, fresh |-> fresh]

InitStale ==
    /\ now = T0
    /\ pin = PIN
    /\ mounted = FALSE
    /\ \E rows \in {<<>>, <<R0>>} :
          srv = [rows |-> rows, nextId |-> 2, cycle |-> "2026-03"]
    /\ \/ \E a \in [latest : {0} \cup (T0 - TTL_MS - 1)..(T0 - TTL_MS + 1),
                    hist : {0} \cup (T0 - TTL_MS - 1)..(T0 - TTL_MS + 1),
                    cycle : {0} \cup (T0 - TTL_MS - 1)..(T0 - TTL_MS + 1)],
             rows \in {<<>>, <<R0>>} :
             ls = [latest |-> IF a.latest = 0 THEN NoEnvelope
                              ELSE [savedAt |-> a.latest, data |-> rows],
                   hist |-> IF a.hist = 0 THEN NoEnvelope
                            ELSE [savedAt |-> a.hist, data |-> rows],
                   cycle |-> IF a.cycle = 0 THEN NoCycleEnvelope
                             ELSE [savedAt |-> a.cycle, data |-> "2026-03"],
                   wOutbox |-> <<>>, dOutbox |-> <<>>]
       \/ \E k \in {<<>>, Key(2026, 3), BadKey},
             at \in {0} \cup (T0 - CYCLE_TTL_MS - 1)..(T0 - CYCLE_TTL_MS + 1) :
             ls = [cycleKey |-> k, cycleKeyAt |-> at]
    /\ ui = InitUi
    /\ pr = InitPr
    /\ turn = <<>>
    /\ att = {}
    /\ used = [mut |-> 0, steps |-> 0, post |-> 0]

\* the room page is opened
RoomMount == "latest" \in DOMAIN ls /\ Mount

\* a fetch of the room page's backgroundRefreshIfStale completes
RoomRefetch == "latest" \in DOMAIN ls /\ bgFetchDone

\* the effect of useCycle: readCache, then refresh() whether fresh or not
useCycleMount ==
    /\ "cycleKey" \in DOMAIN ls /\ ~mounted
    /\ mounted' = TRUE
    /\ LET cached == readCache(ls, now)
       IN  /\ ui' = [cycle |-> cached.key, loading |-> cached.key = <<>>]
           /\ turn' = <<[cached |-> cached, at |-> ls.cycleKeyAt]>>
    /\ pr' = [inflight |-> TRUE]
    /\ UNCHANGED <<now, pin, srv, ls, att, used>>

\* refresh, after fetchBackendCycleKeySafe: a key of the backend, or null
refresh ==
    /\ "cycleKey" \in DOMAIN ls /\ mounted /\ pr.inflight
    /\ \E backend \in {<<>>, Key(2026, 4)} :
          /\ ui' = [cycle |-> IF backend # <<>> THEN backend ELSE ui.cycle,
                    loading |-> FALSE]
          /\ ls' = IF backend # <<>>
                   THEN [cycleKey |-> backend, cycleKeyAt |-> now]
                   ELSE ls
    /\ pr' = [inflight |-> FALSE]
    /\ UNCHANGED <<now, pin, mounted, srv, turn, att, used>>

NextStale ==
    \/ RoomMount
    \/ RoomRefetch
    \/ useCycleMount
    \/ refresh

SpecStale == InitStale /\ [][NextStale]_vars

\* ============================================ the handler's memCache
\* Concurrent GET and POST handlers of src/pages/api/meter.ts over one
\* memCache and one remote script.  Time is in seconds.  att is memCache,
\* pr the handlers suspended on fetchJson, srv.version the number of POSTs
\* the remote script has applied, turn the last answer returned.

ttlForAction(action) ==
    CASE action = "cycleGet" -> 30
      [] action = "houseCycleLatest" -> 10
      [] action \in {"latest", "history", "log", "latestCycle", "historyByCycle",
                     "houseLatest", "houseHistory", "cyclesGet"} -> 8
      [] OTHER -> 0

cacheKeyForUrl(url) == <<"GET", url>>

\* cacheGet at time t: the entry under key, if it has not expired
cacheGet(cache, key, t) == {e \in cache : e.key = key /\ e.exp > t}

\* memCache after cacheGet: an expired entry under key is deleted
cacheGetPurge(cache, key, t) == {e \in cache : e.key # key \/ e.exp > t}

cacheSet(cache, key, status, json, ttlMs, t) ==
    {e \in cache : e.key # key}
        \cup {[key |-> key, exp |-> t + ttlMs, status |-> status, json |-> json]}

\* the handlers the model runs, and the last second of its clock
MaxCalls == 3
MaxClock == 16

InitCache ==
    /\ now = 0
    /\ pin = PIN
    /\ mounted = TRUE
    /\ srv = [version |-> 0]
    /\ ls = [returned |-> 0]
    /\ ui = InitUi
    /\ pr = {}
    /\ turn = <<>>
    /\ att = {}
    /\ used = [mut |-> 0, steps |-> 0, post |-> 0]

\* a GET arrives: answered from memCache, or sent on to the remote script
getArrives ==
    /\ used.steps < MaxCalls
    /\ used' = [used EXCEPT !.steps = @ + 1]
    /\ \E action \in {"cycleGet", "history", "rooms"} :
          LET key == cacheKeyForUrl(action)
              hit == IF ttlForAction(action) > 0 THEN cacheGet(att, key, now) ELSE {}
          IN  /\ att' = IF ttlForAction(action) > 0
                        THEN cacheGetPurge(att, key, now) ELSE att
              /\ IF hit # {}
                 THEN /\ \E e \in hit :
                            turn' = <<[method |-> "GET", action |-> action, hit |-> TRUE,
                                       status |-> e.status, json |-> e.json,
                                       exp |-> e.exp, floor |-> ls.returned]>>
                      /\ pr' = pr
                 ELSE /\ pr' = pr \cup {[id |-> used.steps, method |-> "GET",
                                         action |-> action, phase |-> "sent",
                                         floor |-> ls.returned]}
                      /\ turn' = <<>>
    /\ UNCHANGED <<now, pin, mounted, srv, ls, ui>>

\* a valid POST of a known PIN arrives and is sent on to the remote script
postArrives ==
    /\ used.steps < MaxCalls
    /\ used' = [used EXCEPT !.steps = @ + 1]
    /\ pr' = pr \cup {[id |-> used.steps, method |-> "POST", action |-> "save",
                       phase |-> "sent", floor |-> ls.returned]}
    /\ turn' = <<>>
    /\ UNCHANGED <<now, pin, mounted, srv, ls, ui, att>>

\* the remote script takes a request: a GET reads the data as it is now, a
\* POST is applied or not; the answer is on its way
scriptAnswers ==
    \E h \in pr :
        /\ h.phase = "sent"
        /\ \E outcome \in ScriptOutcomes :
              /\ h.method = "GET" => outcome \in {"ok", "error", "not_json"}
              /\ srv' = [version |-> IF h.method = "POST" /\ ScriptApplies(outcome)
                                     THEN srv.version + 1 ELSE srv.version]
              /\ pr' = (pr \ {h}) \cup
                       {[id |-> h.id, method |-> h.method, action |-> h.action,
                         phase |-> "answered", floor |-> h.floor,
                         res |-> fetchJsonPost(outcome),
                         json |-> IF outcome = "ok" THEN srv'.version ELSE 0 - 1]}
        /\ turn' = <<>>
        /\ UNCHANGED <<now, pin, mounted, ls, ui, att, used>>

\* a POST handler that never clears memCache
cacheKept(cache, ok) == cache

\* memCache when a POST handler returns: cleared if the envelope has ok
cacheAfterPost(cache, ok) == IF ok THEN {} ELSE cache

\* fetchJson returns or throws in a handler, which goes on to its end
handlerResumes ==
    \E h \in pr :
        /\ h.phase = "answered"
        /\ pr' = pr \ {h}
        /\ LET status == IF h.res.thrown THEN 500 ELSE h.res.status
               ttl == ttlForAction(h.action)
           IN  IF h.method = "GET"
               THEN /\ att' = IF ~h.res.thrown /\ ttl > 0
                              THEN cacheSet(att, cacheKeyForUrl(h.action), status,
                                            h.json, ttl, now)
                              ELSE att
                    /\ ls' = ls
                    /\ turn' = <<[method |-> "GET", action |-> h.action, hit |-> FALSE,
                                  status |-> status, json |-> h.json,
                                  exp |-> now + ttl, floor |-> h.floor]>>
               ELSE /\ att' = IF h.res.thrown THEN att ELSE cacheAfterPost(att, h.res.ok)
                    /\ ls' = IF ~h.res.thrown /\ h.res.ok /\ h.res.status < 300
                             THEN [returned |-> IF h.json > ls.returned
                                                THEN h.json ELSE ls.returned]
                             ELSE ls
                    /\ turn' = <<[method |-> "POST", action |-> h.action,
                                  ok |-> ~h.res.thrown /\ h.res.ok, status |-> status,
                                  before |-> att]>>
        /\ UNCHANGED <<now, pin, mounted, srv, ui, used>>

\* the clock
cacheClock ==
    /\ now + 8 <= MaxClock /\ now' = now + 8
    /\ turn' = <<>>
    /\ UNCHANGED <<pin, mounted, srv, ls, ui, pr, att, used>>

NextCache ==
    \/ getArrives
    \/ postArrives
    \/ scriptAnswers
    \/ handlerResumes
    \/ cacheClock

SpecCache == InitCache /\ [][NextCache]_vars

\* =============================================== PINs and admin PINs
\* /api/auth and /api/meter each parse VTPT_PINS and VTPT_ADMIN_PINS with
\* their own functions.  ls holds the two configuration strings, ui the PIN
\* of the request, att the answer of /api/auth and turn that of /api/meter
\* to a cycleSet with a valid month that the remote script accepts.

\* s.split(sep)
RECURSIVE splitOn(_, _)
splitOn(s, sep) ==
    IF \A i \in 1..Len(s) : s[i] # sep THEN <<s>>
    ELSE LET i == CHOOSE i \in 1..Len(s) :
                      s[i] = sep /\ \A j \in 1..(i - 1) : s[j] # sep
         IN  <<SubSeq(s, 1, i - 1)>> \o splitOn(SubSeq(s, i + 1, Len(s)), sep)

\* .split(",").map((s) => s.trim()).filter(Boolean), as a set
Tokens(s) == {trim(t) : t \in Range(splitOn(s, ","))} \ {<<>>}

\* parsePins (the same text in both files): the pins that get a name
parsePins(pinsRaw) ==
    {trim(splitOn(item, ":")[1]) :
        item \in {t \in Tokens(pinsRaw) :
                     /\ \E i \in 1..Len(t) : t[i] = ":"
                     /\ trim(splitOn(t, ":")[1]) # <<>>
                     /\ LET i == Len(splitOn(t, ":")[1]) + 1
                        IN  trim(SubSeq(t, i + 1, Len(t))) # <<>>}}

\* parseAdminPins of /api/auth: ; | space and line ends separate as commas
\* do, and a label after ":" is ignored
parseAdminPinsAuth(raw) ==
    LET normalized == [i \in 1..Len(raw) |->
                          IF raw[i] \in {";", "|", " "} THEN "," ELSE raw[i]]
    IN  {trim(splitOn(part, ":")[1]) : part \in Tokens(normalized)} \ {<<>>}

\* parseAdminPins of /api/meter
parseAdminPins(raw) == Tokens(trim(raw))

\* handler of /api/auth
authAnswer(env, pinHeader) ==
    LET pins == parsePins(env.VTPT_PINS)
        p == trim(pinHeader)
    IN  IF env.VTPT_PINS = <<>> \/ pins = {} THEN [status |-> 500, isAdmin |-> FALSE]
        ELSE IF p = <<>> \/ p \notin pins THEN [status |-> 401, isAdmin |-> FALSE]
        ELSE [status |-> 200, isAdmin |-> p \in parseAdminPinsAuth(env.VTPT_ADMIN_PINS)]

\* requirePinActor and requireAdmin of /api/meter from the configuration
\* strings: the status of the refusal, 0 when there is none
requireAdminOf(env, pinHeader) ==
    LET pins == parsePins(env.VTPT_PINS)
        p == trim(pinHeader)
    IN  IF env.VTPT_PINS = <<>> \/ pins = {} THEN 500
        ELSE IF p = <<>> \/ p \notin pins THEN 401
        ELSE IF p \notin parseAdminPins(env.VTPT_ADMIN_PINS) THEN 403
        ELSE 0

\* the longest VTPT_ADMIN_PINS tried
MaxConfigLen == 4

InitPins ==
    /\ now = 0
    /\ pin = PIN
    /\ mounted = TRUE
    /\ srv = [cycle |-> Key(2026, 3)]
    /\ \E n \in 0..MaxConfigLen :
          \E admin \in [1..n -> {"1", "2", ",", ";", ":", " "}] :
             \E names \in {<<>>, <<"1", ":", "a", ",", "2", ":", "b">>,
                           <<"1", " ", "2", ":", "c", ",", "2", ":", "b">>} :
                ls = [VTPT_PINS |-> names, VTPT_ADMIN_PINS |-> admin]
    /\ ui \in {[pin |-> p] : p \in {<<"1">>, <<"2">>, <<"1", " ", "2">>, <<"2", " ">>}}
    /\ pr = {}
    /\ turn = <<>>
    /\ att = {}
    /\ used = [mut |-> 0, steps |-> 0, post |-> 0]

\* POST /api/auth with the PIN
authHandler ==
    /\ att = {}
    /\ att' = {authAnswer(ls, ui.pin)}
    /\ UNCHANGED <<now, pin, mounted, srv, ls, ui, pr, turn, used>>

\* POST /api/meter, cycleSet to the next month, with the same PIN
cycleSetHandler ==
    /\ turn = <<>>
    /\ LET refused == requireAdminOf(ls, ui.pin)
       IN  IF refused # 0
           THEN turn' = <<[status |-> refused, ok |-> FALSE]>> /\ srv' = srv
           ELSE /\ turn' = <<[status |-> 200, ok |-> TRUE]>>
                /\ srv' = [cycle |-> nextMonth(srv.cycle)]
    /\ UNCHANGED <<now, pin, mounted, ls, ui, pr, att, used>>

NextPins ==
    \/ authHandler
    \/ cycleSetHandler

SpecPins == InitPins /\ [][NextPins]_vars

\* =========================================== one reading, two pages
\* The house page (isLoggedInBusinessCycle) and the room page (isRowInCycle)
\* each decide whether a reading belongs to the active cycle.  pr holds the
\* reading and the active cycle key, att the house page's verdict, turn the
\* room page's.  The browser's time zone is Asia/Ho_Chi_Minh.

\* isLoggedInBusinessCycle of the house page
isLoggedInBusinessCycle(reading, cycleKey) ==
    LET ck == trim(cycleKey)
        effective == cycleKeyFromReadingDate(reading.date)
    IN  /\ reading.date # BadDateStr
        /\ ck # <<>> /\ isMonthKey(ck)
        /\ effective # NoKey /\ isMonthKey(effective)
        /\ effective = ck

\* monthKeyFromDateString of the room page, for a date given as a string:
\* the year and month of the local date
monthKeyOfDateString(dateStr) ==
    IF dateStr = BadDateStr THEN <<"u", "n", "k", "n", "o", "w", "n">>
    ELSE monthKeyFromParts(vnYMD(dateStr).y, vnYMD(dateStr).m)

\* isRowInCycle of the room page, the cycle stamp and the key as strings
isRowInCycleOfPage(row, cycleMonth) ==
    IF cycleMonth = <<>> THEN FALSE
    ELSE IF trim(row.cycle) # <<>> THEN trim(row.cycle) = cycleMonth
    ELSE monthKeyOfDateString(row.date) = cycleMonth

InitSameCycle ==
    /\ now = NewDate(2026, 10)
    /\ pin = ""
    /\ mounted = FALSE
    /\ srv = [cycle |-> Key(2026, 11), posts |-> <<>>]
    /\ ls = [cycleMonth |-> <<>>]
    /\ ui = HomeUi
    /\ \E t \in {v \in VnTimes : v.y = 2026 /\ v.m \in {2, 3, 12}},
          stamp \in {<<>>, Key(2026, 2), Key(2026, 3), Key(2026, 4), Key(2027, 1)},
          active \in {Key(2026, 3), Key(2026, 4), Key(2027, 1)} :
          pr = [reading |-> [date |-> IsoOfVn(t), cycle |-> stamp], vn |-> t,
                cycleMonth |-> active]
    /\ turn = <<>>
    /\ att = {}
    /\ used = [mut |-> 0, steps |-> 0, post |-> 0]

\* the house page renders the room's card
housePageRenders ==
    /\ att = {}
    /\ att' = {[loggedInCycle |-> isLoggedInBusinessCycle(pr.reading, pr.cycleMonth)]}
    /\ UNCHANGED <<now, pin, mounted, srv, ls, ui, pr, turn, used>>

\* the room page renders the room's latest reading
roomPageRenders ==
    /\ turn = <<>>
    /\ turn' = <<[hasThisCycle |-> isRowInCycleOfPage(pr.reading, pr.cycleMonth)]>>
    /\ UNCHANGED <<now, pin, mounted, srv, ls, ui, pr, att, used>>

NextSameCycle ==
    \/ housePageRenders
    \/ roomPageRenders

SpecSameCycle == InitSameCycle /\ [][NextSameCycle]_vars

\* ============================================================ properties
QueuedWrite(st, id) ==
    {st.wOutbox[i] : i \in {j \in 1..Len(st.wOutbox) : st.wOutbox[j].id = id}}

QueuedDelete(st, room, target) ==
    {st.dOutbox[i] : i \in {j \in 1..Len(st.dOutbox) :
                               SameTarget(st.dOutbox[j], room, target)}}

Bumped(items) == {[x EXCEPT !.tries = @ + 1] : x \in items}

Queued(st, a) ==
    IF a.queue = "write" THEN QueuedWrite(st, a.item.id)
    ELSE QueuedDelete(st, a.item.room, a.item.target)

\* y, at place j of the outbox after the step, was queued before it, as it
\* is (an enqueue or a removal moves an item by one place at most)
KeptAt(old, y, j) ==
    \/ j <= Len(old) /\ old[j] = y
    \/ j > 1 /\ j - 1 <= Len(old) /\ old[j - 1] = y
    \/ j + 1 <= Len(old) /\ old[j + 1] = y

\* every item queued after the step was queued before it and is unchanged,
\* or has just been enqueued, or is the item of the attempt
OthersKept(old, new, queue) ==
    new # old =>
        \A j \in 1..Len(new) :
            \/ KeptAt(old, new[j], j)
            \/ new[j].tries = 0 /\ new[j].createdAt = now /\ att' = {}
            \/ \E a \in att' : a.queue = queue /\ new[j] \in Queued(ls', a)

\* C1 (as amended): when the answer to an attempt comes, the item is removed
\* if the answer is an envelope with ok: true; after any other outcome what
\* is queued of the item stays queued with tries grown by exactly one; and
\* no other step changes the tries of a queued item.  (An item that an
\* enqueue onto a full outbox dropped while its attempt was in flight is not
\* queued any more, whatever the answer.)
C1_AttemptBookkeeping ==
    [][/\ \A a \in att' :
             Queued(ls', a) = IF JsonOk(a.resp) THEN {} ELSE Bumped(Queued(ls, a))
       /\ OthersKept(ls.wOutbox, ls'.wOutbox, "write")
       /\ OthersKept(ls.dOutbox, ls'.dOutbox, "delete")]_vars

\* C1 witness: the write this room's page had left queued after one failed
\* attempt has failed a second time and then been delivered
C1_Witness ==
    /\ used.mut = 0
    /\ used.post = 2
    /\ ls.wOutbox = <<>>
    /\ \E r \in Range(srv.rows) : r.dien = 6

\* C1 as stated: after a failed attempt the item is still queued, with one
\* more try
C1_AsStated ==
    [][\A a \in att' :
          /\ JsonOk(a.resp) <=> Queued(ls', a) = {}
          /\ ~JsonOk(a.resp) => Queued(ls', a) = Bumped(Queued(ls, a))]_vars

\* a run that is not the newest one any more, waiting for its fetches after
\* the newest run has had both of its own
StaleRun(r) ==
    /\ r.phase = "fetch"
    /\ r.seq < ui.syncSeq
    /\ \A q \in pr.runs : q.seq # ui.syncSeq

\* C2: when the fetches of a run resolve after those of a newer run, applying
\* their result is a no-op: the in-memory history and latest and the cached
\* history and latest stay as the newer run left them.
C2_StaleDiscard ==
    [][\A r \in pr.runs :
          StaleRun(r) /\ r \notin pr'.runs =>
             /\ ui'.history = ui.history
             /\ ui'.latestOverall = ui.latestOverall
             /\ ls'.hist.data = ls.hist.data
             /\ ls'.latest.data = ls.latest.data]_vars

NoDuplicateDelete ==
    \A i, j \in 1..Len(ls.dOutbox) :
        i # j => ~SameTarget(ls.dOutbox[i], ls.dOutbox[j].room, ls.dOutbox[j].target)

\* the turn is deleteEditingRow's
DeleteStep == Len(turn') > 0 /\ turn'[1] = "deleteEditingRow"

\* the turn is commitSaveReading's, with a valid input
SaveStep == Len(turn') > 0 /\ turn'[1] = "commitSaveReading"

\* C4: the delete outbox never holds two items for one (room, target.id,
\* target.date), and enqueueDelete for a triple that is queued changes
\* nothing: the item keeps its place, its createdAt and its tries.
C4_DeleteDedup ==
    /\ []NoDuplicateDelete
    /\ [][DeleteStep /\ (\E e \in ui.editing :
                            QueuedDelete(ls, ROOM, [id |-> e.id, date |-> e.date]) # {})
             => ls'.dOutbox = ls.dOutbox]_vars

\* C4 witness: the script's only row has been deleted twice on the page (it
\* came back with a sync before its delete was delivered), and one item is
\* queued for it
C4_Witness ==
    /\ used.mut = 2
    /\ Len(turn) > 0 /\ turn[1] = "deleteEditingRow"
    /\ srv.rows = <<R0>> /\ srv.nextId = 2
    /\ ls.wOutbox = <<>>
    /\ Len(ls.dOutbox) = 1

Pos(e) == {i \in 1..Len(turn) : turn[i] = e}

Before(e1, e2) == \A i \in Pos(e1), j \in Pos(e2) : i < j

\* C5: in a turn of commitSaveReading or deleteEditingRow the optimistic
\* change is made (setHistory is called, the history and latest caches are
\* written) before the item is enqueued, and the item is enqueued before the
\* first fetch is issued; when the turn ends, with no answer from the
\* network, the page's history and the caches hold the new values (the
\* saved reading is there, the deleted one is not).
C5_OptimisticFirst ==
    /\ [](Len(turn) > 0 =>
            /\ Pos("setHistory") # {} /\ Pos("cacheHistory") # {}
            /\ Pos("cacheLatest") # {} /\ Pos("enqueue") # {}
            /\ Before("setHistory", "enqueue")
            /\ Before("cacheHistory", "enqueue")
            /\ Before("cacheLatest", "enqueue")
            /\ Before("enqueue", "fetch"))
    /\ [][/\ SaveStep =>
               \E inp \in Inputs, r \in Range(ui'.history) :
                  /\ Valid(inp) /\ r.dien = inp.dien /\ r.nuoc = inp.nuoc
                  /\ r \in Range(ls'.hist.data)
                  /\ r \in Range(ls'.latest.data)
          /\ DeleteStep =>
               \A e \in ui.editing :
                  \A r \in Range(ui'.history) \cup Range(ls'.hist.data)
                           \cup Range(ls'.latest.data) :
                     ~MatchesTarget(r, e)]_vars

\* the item at place i of the outbox is queued after the step too (an
\* enqueue or a removal moves it by one place at most; its tries may grow)
StaysWrite(old, new, i) ==
    \E j \in {i - 1, i, i + 1} \cap (1..Len(new)) : new[j].id = old[i].id

StaysDelete(old, new, i) ==
    \E j \in {i - 1, i, i + 1} \cap (1..Len(new)) :
        SameTarget(new[j], old[i].room, old[i].target)

AckedWrite(x) ==
    \E a \in att' : a.queue = "write" /\ JsonOk(a.resp) /\ a.item.id = x.id

AckedDelete(x) ==
    \E a \in att' : a.queue = "delete" /\ JsonOk(a.resp)
                    /\ SameTarget(a.item, x.room, x.target)

\* an enqueue onto an outbox that is at its cap: the new item goes in front
\* and slice(0, cap) cuts the last, oldest item
CutByCap(old, new, i, cap) ==
    /\ i = Len(old) /\ Len(old) = cap /\ att' = {}
    /\ new = <<new[1]>> \o SubSeq(old, 1, cap - 1)
    /\ new[1].tries = 0 /\ new[1].createdAt = now

\* C6 (as amended): a queued item leaves its outbox only when the answer to
\* an attempt for it is an envelope with ok: true, or when it is the oldest
\* item of an outbox that holds 120 writes (80 deletes) and one more item is
\* enqueued.
C6_Retention ==
    [][/\ ls'.wOutbox # ls.wOutbox =>
             \A i \in 1..Len(ls.wOutbox) :
                \/ StaysWrite(ls.wOutbox, ls'.wOutbox, i)
                \/ AckedWrite(ls.wOutbox[i])
                \/ CutByCap(ls.wOutbox, ls'.wOutbox, i, WriteOutboxCap)
       /\ ls'.dOutbox # ls.dOutbox =>
             \A i \in 1..Len(ls.dOutbox) :
                \/ StaysDelete(ls.dOutbox, ls'.dOutbox, i)
                \/ AckedDelete(ls.dOutbox[i])
                \/ CutByCap(ls.dOutbox, ls'.dOutbox, i, DeleteOutboxCap)]_vars

\* C6 witness: this room's page has enqueued a write onto the 120 writes
\* another room's page had left queued, the oldest of them is gone, and an
\* attempt for one of the others has failed and left it queued
C6_Witness ==
    /\ Len(ls.wOutbox) = WriteOutboxCap
    /\ ls.wOutbox[1].payload.room = ROOM
    /\ ls.wOutbox[WriteOutboxCap].id = 1000 + (WriteOutboxCap - 1)
    /\ \E i \in 1..WriteOutboxCap : ls.wOutbox[i].tries = 1

\* C6 as stated: no enqueue, flush of another item or read takes an
\* unacknowledged item out of its outbox
C6_AsStated ==
    [][/\ ls'.wOutbox # ls.wOutbox =>
             \A i \in 1..Len(ls.wOutbox) :
                StaysWrite(ls.wOutbox, ls'.wOutbox, i) \/ AckedWrite(ls.wOutbox[i])
       /\ ls'.dOutbox # ls.dOutbox =>
             \A i \in 1..Len(ls.dOutbox) :
                StaysDelete(ls.dOutbox, ls'.dOutbox, i) \/ AckedDelete(ls.dOutbox[i])]_vars

\* C7: an attempt whose answer is an envelope that is not ok: true, or an
\* HTTP-layer error (rejected fetch, timeout, status other than 2xx), or a
\* body that is not JSON, leaves the item queued with one more try.
C7_FailureClasses ==
    [][\A a \in att' :
          EnvelopeNotOk(a.resp) \/ HttpError(a.resp) \/ MalformedJson(a.resp) =>
             /\ Queued(ls', a) # {}
             /\ Queued(ls', a) = Bumped(Queued(ls, a))]_vars

\* the step is the end of a reconciliation fetch that failed: the fetch was
\* rejected, or its body was not JSON, or the envelope was not ok: true
FailedFetch ==
    \E kind \in GetKinds \ {"ok_true"} :
        \/ bgFetch(kind)
        \/ \E r \in pr.runs : \E rows \in {srv.rows, r.sent} :
              latestArrival(r, kind, rows) \/ historyArrival(r, kind, rows)

\* C8: a reconciliation fetch of the latest reading or of the history that
\* fails leaves the in-memory latest and history and the cached latest and
\* history as they were.
C8_FailedFetchKeeps ==
    [][FailedFetch =>
          /\ ui'.history = ui.history
          /\ ui'.latestOverall = ui.latestOverall
          /\ ls'.hist.data = ls.hist.data
          /\ ls'.latest.data = ls.latest.data]_vars

\* the row commitSaveReading put in the history for a queued "save"
OptimisticRows(h, item) == {r \in Range(h) : r.id = 0 - item.createdAt}

\* C9 (as amended): the failure handling of a flush reverts nothing: when an
\* attempt fails, the in-memory history and latest and the cached history
\* and latest are left as they were.  (The fetches of a background sync that
\* succeed put the server's rows in their place, without the change that is
\* still queued.)
C9_FailureKeepsOptimistic ==
    [][(\E a \in att' : ~JsonOk(a.resp)) =>
          /\ ui'.history = ui.history
          /\ ui'.latestOverall = ui.latestOverall
          /\ ls'.hist = ls.hist
          /\ ls'.latest = ls.latest]_vars

\* C9 witness: a save whose delivery has failed is still queued and its
\* optimistic row is still in the history and in the history cache
C9_Witness ==
    \E i \in 1..Len(ls.wOutbox) :
        /\ ls.wOutbox[i].tries >= 1
        /\ OptimisticRows(ui.history, ls.wOutbox[i]) # {}
        /\ OptimisticRows(ls.hist.data, ls.wOutbox[i]) # {}

\* C9 as stated: while a save whose delivery has failed is queued, no step
\* other than the user's own saves and deletes takes its optimistic row out
\* of the history
C9_AsStated ==
    [][used.mut' = used.mut =>
          \A i \in 1..Len(ls.wOutbox) :
             ls.wOutbox[i].tries >= 1 /\ QueuedWrite(ls', ls.wOutbox[i].id) # {} =>
                OptimisticRows(ui.history, ls.wOutbox[i]) \subseteq Range(ui'.history)]_vars

\* the readings of the history that are in the cycle
InCycle(u) == {r \in Range(u.history) : isRowInCycle(r, u.cycleMonth)}

\* C10: the current-cycle reading is null when no reading of the history is
\* in the cycle, and the cards then show the placeholder; otherwise it is a
\* reading of the cycle, it is what the cards show, and no reading of the
\* cycle has a newer date.
C10_CycleResolver ==
    mounted =>
        IF InCycle(ui) = {}
        THEN ui.latestCycle = {} /\ latestDien(ui) = NoNum /\ latestNuoc(ui) = NoNum
        ELSE \E r \in InCycle(ui) :
                /\ ui.latestCycle = {r}
                /\ latestDien(ui) = r.dien /\ latestNuoc(ui) = r.nuoc
                /\ \A x \in InCycle(ui) : ~StrictlyNewer(x, r)

\* of the strings of this model, those of the form YYYY-MM (/^\d{4}-\d{2}$/)
WellFormedKeys == {MonthKeys[i] : i \in 1..Len(MonthKeys)}

\* C11: with a cycle key that is missing or is not a YYYY-MM string the
\* current-cycle reading is null for every history, and the cards show the
\* placeholder.
C11_InvalidKeyNull ==
    mounted /\ ui.cycleMonth \notin WellFormedKeys =>
        /\ ui.latestCycle = {}
        /\ latestDien(ui) = NoNum
        /\ latestNuoc(ui) = NoNum

OnePerCycle(list) ==
    \A i, j \in 1..Len(list) :
        i # j => EffectiveCycle(list[i]) # EffectiveCycle(list[j])

\* C12: the room's history, in memory and in the history cache, holds at
\* most one reading per effective cycle key.
C12_OnePerCycle ==
    OnePerCycle(ui.history) /\ OnePerCycle(ls.hist.data)

\* the call of upsertHouseHistoryCache that has been made: the list it
\* found for the room, the readings of other cycle keys in it, and the list
\* it left
CallList(c) == IF c.room \in DOMAIN c.before THEN c.before[c.room] ELSE <<>>

CallOthers(c) ==
    {r \in Range(CallList(c)) : EffectiveCycle(r) # EffectiveCycle(c.reading)}

CallResult(c) == ls.hist.data[c.room]

\* the comparator puts no reading of the list before one that precedes it
SortedNewestFirst(list) ==
    \A i, j \in 1..Len(list) : i < j => ~UpsertBefore(list[j], list[i])

OtherRoomsKept(c) ==
    /\ DOMAIN ls.hist.data = DOMAIN c.before \cup {c.room}
    /\ \A r \in DOMAIN c.before : r # c.room => ls.hist.data[r] = c.before[r]

\* C13 (as amended): the result is the first max readings, newest first
\* (unparsable dates last), of incoming and the readings of list with
\* another cycle key: it holds nothing else and no reading twice, it is
\* sorted, it has at most max readings, and a reading is left out only when
\* the result is full and the reading is not newer than any reading kept;
\* the lists of the other rooms of the cached map are unchanged.
C13_UpsertByCycle ==
    \A k \in 1..Len(turn) :
        LET c == turn[k]
            out == CallResult(c)
            all == {c.reading} \cup CallOthers(c)
        IN  /\ Range(out) \subseteq all
            /\ Len(out) = Cardinality(Range(out))
            /\ SortedNewestFirst(out)
            /\ Len(out) <= c.max
            /\ \A x \in all \ Range(out) :
                  /\ Len(out) = c.max
                  /\ \A y \in Range(out) : ~UpsertBefore(x, y)
            /\ OtherRoomsKept(c)

\* C13 witness: the list held three readings, one of them of incoming's
\* cycle; the result holds incoming in its place and one other reading, the
\* third having been cut by max
C13_Witness ==
    /\ Len(turn) = 1
    /\ Len(CallList(turn[1])) = 3
    /\ Cardinality(CallOthers(turn[1])) = 2
    /\ turn[1].reading \notin Range(CallList(turn[1]))
    /\ turn[1].max = UpsertMax
    /\ turn[1].reading \in Range(CallResult(turn[1]))
    /\ OtherRoom \in DOMAIN turn[1].before

\* C13 as stated: the result contains incoming and every reading of list
\* with another cycle key, none of incoming's cycle, is sorted newest first
\* and has at most max readings; the other rooms' lists are unchanged
C13_AsStated ==
    \A k \in 1..Len(turn) :
        LET c == turn[k]
            out == CallResult(c)
        IN  /\ c.reading \in Range(out)
            /\ \A r \in Range(out) :
                  r # c.reading => EffectiveCycle(r) # EffectiveCycle(c.reading)
            /\ CallOthers(c) \subseteq Range(out)
            /\ SortedNewestFirst(out)
            /\ Len(out) <= c.max
            /\ OtherRoomsKept(c)

\* the requests a flush invocation has still to send go from the oldest
\* enqueue to the newest
OldestFirst(todo) ==
    \A i \in 1..(Len(todo) - 1) : todo[i].createdAt <= todo[i + 1].createdAt

\* the step handles the answer to the request of the first item of inv, and
\* inv goes on with the next item (whose request is issued now) or ends
NextInTurn(invs, invsAfter, item) ==
    \E inv \in invs :
        /\ item = Head(inv.todo)
        /\ invsAfter = (invs \ {inv}) \cup
              (IF Len(inv.todo) = 1 THEN {} ELSE {[inv EXCEPT !.todo = Tail(@)]})

\* C14: a flush invocation sends the items of its outbox from the oldest
\* enqueue to the newest (the stored list, back to front), one request per
\* item; the one request it has in flight is for the first item left, and
\* the next is issued when that one has completed.
C14_OldestFirst ==
    /\ [](\A inv \in pr.wInv \cup pr.dInv : inv.todo # <<>> /\ OldestFirst(inv.todo))
    /\ [][/\ (\A a \in att' : a.queue # "write") =>
                \A inv \in pr'.wInv \ pr.wInv : inv.todo = Reverse(ls'.wOutbox)
          /\ (\A a \in att' : a.queue # "delete") =>
                \A inv \in pr'.dInv \ pr.dInv : inv.todo = Reverse(ls'.dOutbox)
          /\ \A a \in att' :
                IF a.queue = "write" THEN NextInTurn(pr.wInv, pr'.wInv, a.item)
                ELSE NextInTurn(pr.dInv, pr'.dInv, a.item)]_vars

\* C14 witness: a flush that found an older item and the write this page
\* has just queued has had the answer for the older one and has the newer
\* one in flight
C14_Witness ==
    \E a \in att, inv \in pr.wInv :
        /\ a.queue = "write"
        /\ a.item.payload.room = ROOM
        /\ a.item.createdAt < Head(inv.todo).createdAt
        /\ Len(inv.todo) = 1

\* the save of a first reading of the cycle: the cycle is known, no reading
\* of the history is in it, nothing is being edited and nothing is queued
FirstSaveOfCycle ==
    /\ SaveStep
    /\ ui.cycleMonth \in WellFormedKeys
    /\ InCycle(ui) = {}
    /\ ui.editing = {}
    /\ ls.wOutbox = <<>>

\* the answer to the POST of that save, the only thing the user has done,
\* comes with ok: true (the cycle was cached before the save)
FirstSaveAcked(a) ==
    /\ a.queue = "write" /\ a.item.payload.action = "save"
    /\ JsonOk(a.resp)
    /\ used.mut = 1
    /\ srv.rows = <<>>
    /\ ls.cycle.data \in WellFormedKeys
    /\ ls.cycle.savedAt < a.item.createdAt

\* C15: after the save of a first reading of cycle C with dien d and nuoc n
\* the cards show d and n and the write outbox holds exactly one item, a
\* "save" of d and n; when its POST is acknowledged the write outbox is
\* empty and the room's entry of the latest cache has d, n and cycle C.
C15_SaveEndToEnd ==
    [][/\ FirstSaveOfCycle =>
             /\ Len(ls'.wOutbox) = 1
             /\ ls'.wOutbox[1].payload.action = "save"
             /\ latestDien(ui') = ls'.wOutbox[1].payload.dien
             /\ latestNuoc(ui') = ls'.wOutbox[1].payload.nuoc
             /\ latestDien(ui') # NoNum \/ latestNuoc(ui') # NoNum
       /\ \A a \in att' :
             FirstSaveAcked(a) =>
                /\ ls'.wOutbox = <<>>
                /\ Len(ls'.latest.data) = 1
                /\ ls'.latest.data[1].dien = a.item.payload.dien
                /\ ls'.latest.data[1].nuoc = a.item.payload.nuoc
                /\ ls'.latest.data[1].cycle = ls.cycle.data]_vars

\* the calendar month after the month of key k: December is followed by
\* January of the next year
FollowingMonth(k) ==
    LET y == NumberOf(SubSeq(k, 1, 4))
        mo == NumberOf(SubSeq(k, 6, 7))
    IN  IF mo = 12 THEN StringOf(y + 1) \o <<"-", "0", "1">>
        ELSE StringOf(y) \o <<"-">> \o pad2(mo + 1)

\* the approve request of an admin is being answered; it was made with the
\* cached cycle key K
ApproveOfAdmin(log) ==
    log.req.queryAction = "approve" /\ isAdminPin(log.req.bodyPin)

\* C16: when an admin approves while the cached cycle key is K, the request
\* carries K and the handler sends the remote script exactly one cycleSet,
\* for the calendar month after K (January of the next year after December);
\* when the page receives the answer of an approval the remote script
\* acknowledged, the cycle cache becomes that month; after any other outcome
\* the cycle cache is what it was.
C16_Approve ==
    [][ /\ (pr.state = "none" /\ pr'.state = "sent" /\ ls.cycleMonth # <<>>) =>
               pr'.req.currentCycleKey = ls.cycleMonth
        /\ (pr.state = "sent" /\ turn' # <<>> /\ ApproveOfAdmin(turn'[1])) =>
               /\ Len(srv'.posts) = 1
               /\ srv'.posts[1].action = "cycleSet"
               /\ srv'.posts[1].month = FollowingMonth(pr.req.currentCycleKey)
        /\ (pr.state \in {"answered", "failed"} /\ pr'.state \in {"reload", "none"}) =>
               IF pr.state = "answered" /\ turn # <<>> /\ turn[1].outcome = "ok"
                  /\ ApproveOfAdmin(turn[1])
               THEN /\ ls'.cycleMonth = FollowingMonth(turn[1].req.currentCycleKey)
                    /\ ls'.cycleMonth = srv.cycle
                    /\ pr'.state = "reload"
               ELSE ls'.cycleMonth = ls.cycleMonth
      ]_vars

\* an approval made in December 2026 was acknowledged: the remote script and
\* the cycle cache are at January 2027
C16_Witness ==
    /\ pr.state = "reload"
    /\ srv.posts # <<>>
    /\ srv.posts[1].month = <<"2", "0", "2", "7", "-", "0", "1">>
    /\ srv.cycle = srv.posts[1].month
    /\ ls.cycleMonth = srv.cycle

\* the request asks for an operation reserved to admins
AdminOnlyRequest(req) ==
    \/ req.bodyAction \in {"cycleSet", "approve"}
    \/ req.to = "part_009" /\ req.queryAction \in {"cycleSet", "approve"}

\* the PIN the handler reads from the request
RequestPin(req) == IF req.to = "part_009" THEN getPin(req) ELSE req.headerPin

\* C17: a POST that asks for cycleSet or approve with a PIN that is missing,
\* unknown or not an admin PIN is answered ok: false with status 401 or 403,
\* nothing is sent to the remote script, and the active cycle is unchanged.
C17_AdminOnly ==
    \A i \in 1..Len(turn) :
        ("req" \in DOMAIN turn[i] /\ "to" \in DOMAIN turn[i].req
         /\ AdminOnlyRequest(turn[i].req)
         /\ RequestPin(turn[i].req) \notin AdminPins) =>
            /\ ~turn[i].res.ok
            /\ turn[i].res.status \in {401, 403}
            /\ turn[i].posts = <<>>
            /\ srv.cycle = turn[i].cycle

\* x is a finite number: a JSON number, or a string that is a numeral
FiniteValue(x) ==
    \/ x.t = "num"
    \/ x.t = "str" /\ trim(x.s) # <<>> /\ \A i \in 1..Len(trim(x.s)) : IsDigit(trim(x.s)[i])

\* x is a string with something in it
NonEmptyText(x) == x.t = "str" /\ trim(x.s) # <<>>

\* x is there and is no YYYY-MM key
NotYYYYMM(x) ==
    /\ x.t # "undefined"
    /\ ~(x.t = "str" /\ (trim(x.s) = <<>> \/ isMonthKey(x.s)))

\* the request does not pass validation: a save or update without a finite
\* dien or nuoc, an update or delete without a target of finite id and
\* non-empty date, a cycle or month that is no YYYY-MM
ValidationFailure(req) ==
    \/ /\ req.bodyAction \in {"", "save", "update"}
       /\ ~FiniteValue(req.dien) /\ ~FiniteValue(req.nuoc)
    \/ /\ req.bodyAction \in {"update", "delete"}
       /\ ~(req.target.t = "obj" /\ FiniteValue(req.target.id)
            /\ NonEmptyText(req.target.date))
    \/ req.bodyAction \in {"", "save", "update"} /\ NotYYYYMM(req.cycle)
    \/ req.bodyAction = "cycleSet" /\ ~isMonthKey(req.month)

\* the PIN of the request is allowed the operation it asks for
Authorised(env, req) ==
    IF req.bodyAction = "cycleSet" THEN requireAdmin(env, req) = 0
    ELSE requirePinActor(env, req) = 0

\* the validation message is shown and nothing else of the page, its caches
\* and its outboxes has changed
RefusedInline ==
    [][(mounted /\ ui'.msg /\ ~ui.msg) =>
          /\ ls' = ls /\ pr' = pr /\ srv' = srv
          /\ ui' = [ui EXCEPT !.msg = TRUE]]_vars

\* C18: a request of meter.ts that fails validation is answered 400 and
\* nothing is sent to the remote script: a save or update with no finite
\* dien or nuoc, an update or delete without a target of finite id and
\* non-empty date, a cycle or month that is not YYYY-MM.
C18_ValidationFirst ==
    \A i \in 1..Len(turn) :
        ("req" \in DOMAIN turn[i] /\ "to" \in DOMAIN turn[i].req
         /\ turn[i].req.to = "meter.ts"
         /\ turn[i].req.bodyAction # "approve"
         /\ Authorised(turn[i].env, turn[i].req)
         /\ ValidationFailure(turn[i].req)) =>
            /\ turn[i].res.status = 400
            /\ turn[i].posts = <<>>

\* the YYYY-MM key of month mo of year y
KeyOfMonth(y, mo) == StringOf(y) \o <<"-">> \o pad2(mo)

\* C19: with the rollover day 25, a reading whose date in Asia/Ho_Chi_Minh
\* is a day before the 25th of month M counts for the business cycle M, and
\* one dated the 25th or later counts for the month after M, which after
\* December is January of the next year.
C19_Rollover ==
    \A i \in 1..Len(turn) :
        ("fn" \in DOMAIN turn[i] /\ turn[i].fn = "cycleKeyFromReadingDate"
         /\ turn[i].vn # BadDateStr) =>
            turn[i].result =
                IF turn[i].vn.d < 25 THEN KeyOfMonth(turn[i].vn.y, turn[i].vn.m)
                ELSE FollowingMonth(KeyOfMonth(turn[i].vn.y, turn[i].vn.m))

\* a reading dated the first hour of 25 December 2026 in Asia/Ho_Chi_Minh,
\* which is still 24 December in UTC, counts for 2027-01
C19_Witness ==
    /\ turn # <<>>
    /\ "fn" \in DOMAIN turn[1] /\ turn[1].fn = "cycleKeyFromReadingDate"
    /\ turn[1].vn = [y |-> 2026, m |-> 12, d |-> 25, h |-> 0]
    /\ pr.dateStr = [y |-> 2026, m |-> 12, d |-> 24, h |-> 17]
    /\ turn[1].result = <<"2", "0", "2", "7", "-", "0", "1">>

\* C20: for every string k of four digits, a hyphen and two digits,
\* addMonth(addMonth(k, 1), -1) is k.
C20_RoundTrip ==
    (/\ Len(turn) = 2
     /\ "fn" \in DOMAIN turn[1] /\ turn[1].fn = "addMonth"
     /\ isMonthKey(turn[1].arg)
     /\ turn[1].delta = 1 /\ turn[2].delta = 0 - 1) =>
        turn[2].result = turn[1].arg

\* an envelope saved at savedAt (0: none) is past its TTL
StaleAt(savedAt, ttl) == savedAt = 0 \/ now - savedAt >= ttl

\* the room page is being opened / the component with useCycle is mounted
RoomOpens == ~mounted /\ mounted' /\ "latest" \in DOMAIN ls
HookMounts == ~mounted /\ mounted' /\ "cycleKey" \in DOMAIN ls

\* the fetches the room page has decided on: of the cycle, of the latest
\* readings, of the history
Refetches(bg) ==
    [cycle |-> bg.phase = "cycle",
     latest |-> bg.phase = "latest" \/ (bg.phase = "cycle" /\ ~bg.latestFresh),
     hist |-> bg.phase = "hist" \/ (bg.phase \in {"cycle", "latest"} /\ ~bg.histFresh)]

PostReturned == turn # <<>> /\ turn[1].method = "POST"

GetReturned == turn # <<>> /\ turn[1].method = "GET"

\* C22: memCache holds only what a GET handler stored after its own fetch
\* (one entry per key, under a GET key of an action with a TTL, expiring
\* within that TTL); when a POST whose upstream envelope has ok returns,
\* memCache is empty; when a POST whose upstream answer has no ok, or is not
\* JSON, returns, memCache is what it was; and an answer served from
\* memCache comes from an entry whose expiry time lies after the present.
C22_MemCache ==
    /\ \A e \in att :
          /\ e.key[1] = "GET"
          /\ ttlForAction(e.key[2]) > 0
          /\ e.exp <= now + ttlForAction(e.key[2])
          /\ \A f \in att : f.key = e.key => f = e
    /\ PostReturned /\ turn[1].ok => att = {}
    /\ PostReturned /\ ~turn[1].ok => att = turn[1].before
    /\ GetReturned /\ turn[1].hit => turn[1].exp > now

\* a POST with ok has just returned and emptied a memCache that held an
\* entry; its ttl has not run out
C22_Witness ==
    /\ PostReturned /\ turn[1].ok
    /\ \E e \in turn[1].before : e.exp > now
    /\ att = {}

\* C23: a GET that arrives after a POST with ok has returned is answered
\* with data the remote script held after that POST, from the script or from
\* memCache; and memCache never holds data older than the last POST that
\* returned with ok.  (An error envelope carries no data.)
C23_NoStaleAfterPost ==
    /\ GetReturned /\ turn[1].json >= 0 => turn[1].json >= turn[1].floor
    /\ \A e \in att : e.json >= 0 => e.json >= ls.returned

\* the step is the bookkeeping of one POST of the write / delete flush
WriteAttempted == att' # {} /\ used'.post = used.post + 1
                     /\ \A a \in att' : a.queue = "write"

DeleteAttempted == att' # {} /\ used'.post = used.post + 1
                      /\ \A a \in att' : a.queue = "delete"

Unsent ==
    \E i \in 1..Len(ls.wOutbox) : ls.wOutbox[i].tries = 0

\* C25: with a PIN present, every write item that commitSaveReading enqueued
\* is sent in the end (its POST completes: the item leaves the outbox or its
\* tries are raised) by the fetches and the timer already under way, with
\* no further trigger, unless the POSTs of the model are used up.  The items
\* are finitely many and a sent item stays sent, so this is: from a state
\* with an unsent item, a state without one is reached.
C25_SentWithoutTrigger ==
    (pin # "" /\ Unsent) ~> (~Unsent \/ used.post >= MaxPosts)

\* C26: no item of the write or delete outbox has a target with a synthetic
\* (negative) id: every update / delete target names an id the server
\* assigned.
C26_NoSyntheticTarget ==
    /\ \A i \in 1..Len(ls.wOutbox) :
          \A t \in ls.wOutbox[i].payload.target : t.id > 0
    /\ \A i \in 1..Len(ls.dOutbox) : ls.dOutbox[i].target.id > 0

\* the step is a commitSaveReading that saved / a deleteEditingRow
Saved == turn' # <<>> /\ turn'[1] = "commitSaveReading"

Deleted == turn' # <<>> /\ turn'[1] = "deleteEditingRow"

\* C27: at the end of the turn of commitSaveReading and of deleteEditingRow
\* (the handler and the render it causes), the room's list in the history
\* cache is the history list of the page: same readings, same order.
C27_CacheIsHistory ==
    [][Saved \/ Deleted => ls'.hist.data = ui'.history]_vars

\* a save has put a second reading in front of the history; the cache holds
\* the same two
C27_Witness ==
    /\ turn # <<>> /\ turn[1] = "commitSaveReading"
    /\ Len(ui.history) = 2
    /\ ui.history[1].id < 0
    /\ ls.hist.data = ui.history

C29_SameAdmins ==
    \A a \in att :
        turn # <<>> /\ a.status = 200 => (a.isAdmin <=> turn[1].ok)

\* C30: for the same reading and the same valid active cycle key, the house
\* page and the room page agree on whether the reading is of the active
\* cycle.
C30_PagesAgree ==
    \A h \in att : turn # <<>> => (h.loggedInCycle <=> turn[1].hasThisCycle)

====
